---- MODULE Spec2Model ----
(***************************************************************************)
(* A model of the EchelonRanker rank-change client and audit log.          *)
(*                                                                         *)
(*   AuditLog   src/src/services/auditLog.js  (add, cleanup, maskIp)       *)
(*   RankBotAPI src/unnamed/part_001          (request, cache, undo)       *)
(*                                                                         *)
(* Strings that the code splits or joins are sequences of tokens: the      *)
(* separators "." and ":" and the maximal separator-free pieces between    *)
(* them, so that '203.0.113.55' is <<"203", ".", "0", ".", "113", ".",     *)
(* "55">>.  An optional JavaScript value is a sequence of length at most   *)
(* one: << >> is null/undefined and <<v>> is the value v.                  *)
(***************************************************************************)
EXTENDS Integers, Sequences, FiniteSets, TLC

VARIABLES
    now,          \* Date.now() in milliseconds
    ticks,        \* how often the clock has advanced (bounds the model)
    logs,         \* AuditLog.logs, newest first
    maxEntries,   \* AuditLog.maxEntries
    nAdds,        \* number of AuditLog.add calls so far
    ipPool,       \* the source addresses the callers of add pass in
    nextSweep,    \* when the cleanup interval is next due
    lastCall,     \* the last AuditLog operation, its argument and its result
    sink,         \* the log file of the audit log and its rotated files
    roblox,       \* the role directory of the Roblox client and its last lookup
    cooldowns,    \* the bot: the cooldown setting, the cooldowns map, the last check
    session,      \* the session monitor: its state and what it has emitted
    game,         \* the game-side module: its request queue and processor
    tickSteps,    \* by how many milliseconds the clock advances in one step
    pc,           \* RankBotAPI: "idle", or the await a call is suspended at
    op,           \* the client call in progress (the last one when idle)
    retries,      \* request(): options.retries
    attempt,      \* request(): the loop counter
    lastError,    \* request(): lastError
    nFetch,       \* fetch() calls made by the call in progress
    nProcessed,   \* requests of the call in progress the service has handled
    cacheAtCall,  \* this.cache.store as the call in progress found it
    nSleep,       \* sleep() calls completed by the call in progress
    delay,        \* the delay of the last sleep() call
    lastResp,     \* what the last fetch() produced
    same,         \* the kind and status all fetch() of this call produced
    ret,          \* how the last client call ended: a return or a throw
    isHealthy,    \* RankBotAPI.isHealthy
    lastHealthCheck, \* RankBotAPI.lastHealthCheck
    cache,        \* RankBotAPI.cache.store
    lastAction,   \* RankBotAPI.lastAction, the undo slot
    srvRank,      \* the ranking service: the rank of each user
    buttons,      \* the Undo buttons the bot has put under its replies
    env           \* the responses the network and the service may produce

auditVars == <<logs, maxEntries, nAdds, ipPool, nextSweep, lastCall, sink>>
reqVars == <<pc, op, retries, attempt, lastError, nFetch, nProcessed, nSleep,
             delay, lastResp, same, ret, cacheAtCall>>
clientVars == <<reqVars, isHealthy, lastHealthCheck, cache, lastAction,
                srvRank, buttons, env>>
botVars == <<cooldowns, session, game>>
vars == <<now, ticks, tickSteps, auditVars, clientVars, roblox, botVars>>

----------------------------------------------------------------------------
(* Bounds of the model *)

MaxCap == 2        \* maxEntries ranges over 1..MaxCap
MaxAdds == 3       \* add calls in one behaviour
MaxTicks == 2      \* clock advances in one behaviour

----------------------------------------------------------------------------
(* Generic helpers *)

Min(a, b) == IF a <= b THEN a ELSE b

Max(a, b) == IF a >= b THEN a ELSE b

Take(s, n) == SubSeq(s, 1, Min(n, Len(s)))

None == << >>
Some(v) == <<v>>

----------------------------------------------------------------------------
(* Token strings: String.prototype.includes / split / join / slice *)

Includes(s, c) == \E i \in 1..Len(s) : s[i] = c

RECURSIVE Split(_, _)
\* s.split(c): the pieces between the occurrences of c, empty pieces included
Split(s, c) ==
    IF ~Includes(s, c) THEN <<s>>
    ELSE LET i == CHOOSE k \in 1..Len(s) :
                      s[k] = c /\ \A j \in 1..(k-1) : s[j] # c
         IN  <<SubSeq(s, 1, i - 1)>> \o Split(SubSeq(s, i + 1, Len(s)), c)

RECURSIVE Join(_, _)
\* parts.join(c)
Join(parts, c) ==
    IF Len(parts) = 0 THEN << >>
    ELSE IF Len(parts) = 1 THEN parts[1]
    ELSE parts[1] \o <<c>> \o Join(Tail(parts), c)

----------------------------------------------------------------------------
(* AuditLog: timestamps *)

MAX_AGE == 3600000            \* cleanup: Date.now() - 3600000
CLEANUP_INTERVAL == 600000    \* startCleanup: setInterval(..., 600000)
MS_PER_DAY == 86400000

\* new Date().toISOString(): the calendar day and the millisecond within it
ToISOString(ms) == <<ms \div MS_PER_DAY, ms % MS_PER_DAY>>

\* new Date(iso).getTime()
DateParse(iso) == iso[1] * MS_PER_DAY + iso[2]

----------------------------------------------------------------------------
(* AuditLog.maskIp *)

\* a mask that writes the fourth part back instead of 'xxx'
DottedXxx_KeepsLast(parts) ==
    parts[1] \o <<".">> \o parts[2] \o <<".">> \o parts[3] \o <<".">> \o parts[4]

\* `${parts[0]}.${parts[1]}.${parts[2]}.xxx`
DottedXxx(parts) ==
    parts[1] \o <<".">> \o parts[2] \o <<".">> \o parts[3] \o <<".", "xxx">>

\* ip.startsWith('::ffff:')
StartsWithMapped(s) ==
    Len(s) >= 4 /\ SubSeq(s, 1, 4) = <<":", ":", "ffff", ":">>

\* the code's last branch, '// Handle ::ffff:IPv4 format', and its fall-through
MaskMapped(s) ==
    IF StartsWithMapped(s) /\ Len(Split(SubSeq(s, 5, Len(s)), ".")) = 4
    THEN Some(<<":", ":", "ffff", ":">> \o DottedXxx(Split(SubSeq(s, 5, Len(s)), ".")))
    ELSE Some(s)

\* '// For IPv6: mask last 64 bits', then the last branch
MaskV6(s) ==
    IF Includes(s, ":") /\ Len(Split(s, ":")) >= 4
    THEN Some(Join(SubSeq(Split(s, ":"), 1, 4), ":") \o <<":", ":", "xxxx">>)
    ELSE MaskMapped(s)

maskIp(ip) ==
    IF ip = None \/ ip[1] = << >> THEN None             \* if (!ip) return null
    ELSE IF Includes(ip[1], ".") /\ ~Includes(ip[1], ":")
            /\ Len(Split(ip[1], ".")) = 4
         THEN Some(DottedXxx(Split(ip[1], ".")))
         ELSE MaskV6(ip[1])

----------------------------------------------------------------------------
(* AuditLog.add and AuditLog.cleanup *)

\* entry.x || null for a number: undefined, null and 0 all become null
OrNullNum(x) == IF x = None \/ x = Some(0) THEN None ELSE x

\* entry.x || null for a string: undefined, null and '' all become null
OrNullStr(x) == IF x = None \/ x = Some("") THEN None ELSE x

\* Math.random().toString(36).substring(2, 7), the suffix of an entry id
RandSuffixes == {"a", "b"}

\* an entry that drops the error text
NewLogEntry_NoError(entry, r) ==
    [id         |-> <<now, r>>,
     timestamp  |-> ToISOString(now),
     action     |-> entry.action,
     userId     |-> entry.userId,
     username   |-> OrNullStr(entry.username),
     targetRank |-> OrNullNum(entry.targetRank),
     oldRank    |-> OrNullNum(entry.oldRank),
     newRank    |-> OrNullNum(entry.newRank),
     success    |-> entry.success,
     error      |-> None,
     ip         |-> maskIp(entry.ip)]

\* the entry add() builds: logEntry
NewLogEntry(entry, r) ==
    [id         |-> <<now, r>>,
     timestamp  |-> ToISOString(now),
     action     |-> entry.action,
     userId     |-> entry.userId,
     username   |-> OrNullStr(entry.username),
     targetRank |-> OrNullNum(entry.targetRank),
     oldRank    |-> OrNullNum(entry.oldRank),
     newRank    |-> OrNullNum(entry.newRank),
     success    |-> entry.success,
     error      |-> OrNullStr(entry.error),
     ip         |-> maskIp(entry.ip)]

\* an insert that forgets to trim
Unshift_NoTrim(buf, logEntry, cap) == <<logEntry>> \o buf

\* this.logs.unshift(logEntry); if (length > maxEntries) length = maxEntries
Unshift(buf, logEntry, cap) ==
    IF Len(<<logEntry>> \o buf) > cap
    THEN SubSeq(<<logEntry>> \o buf, 1, cap)
    ELSE <<logEntry>> \o buf

\* a sweep with a window of two hours
KeptByCleanup_TwoHours(log, t) == DateParse(log.timestamp) > t - 2 * MAX_AGE

\* the filter of cleanup(): new Date(log.timestamp).getTime() > oneHourAgo
KeptByCleanup(log, t) == DateParse(log.timestamp) > t - MAX_AGE

\* what the callers of add pass in, but for the source address
EntryShapes ==
    { [action |-> "setRank", userId |-> 1, username |-> Some("bob"),
       targetRank |-> Some(5), oldRank |-> Some(1), newRank |-> Some(5),
       success |-> TRUE, error |-> None],
      [action |-> "promote", userId |-> 2, username |-> None,
       targetRank |-> None, oldRank |-> None, newRank |-> None,
       success |-> FALSE, error |-> Some("User is not in the group")] }

EntryInputs ==
    { [action |-> e.action, userId |-> e.userId, username |-> e.username,
       targetRank |-> e.targetRank, oldRank |-> e.oldRank,
       newRank |-> e.newRank, success |-> e.success, error |-> e.error,
       ip |-> a] : e \in EntryShapes, a \in ipPool }

\* 1024 * 1024, the bytes of the megabyte fileSizeMB is counted in
BYTES_PER_MB == 1048576

\* files.slice(5): the rotated files that cleanupOldLogs keeps
KEEP_ROTATED == 5

\* the length of JSON.stringify(entry) + '\n', which grows with the fields
\* of the entry that are not null
LineBytes(logEntry) ==
    200 + 12 * Len(logEntry.username) + 40 * Len(logEntry.error)

\* the file system calls of the sink that can throw
SinkFaults == {"stat", "rename", "readdir", "statRotated", "unlink", "append"}

\* fileSizeMB >= this.maxFileSize, with fileSizeMB = stats.size / (1024 * 1024)
RotateNeeded(s) ==
    s.file[1].size >= s.maxFileSize * BYTES_PER_MB

\* files sorted by mtime, newest first, and cut after the fifth: among files
\* of one mtime the order of readdirSync decides
KeptRotated(files) ==
    IF Cardinality(files) > KEEP_ROTATED
    THEN { K \in SUBSET files :
             /\ Cardinality(K) = KEEP_ROTATED
             /\ \A k \in K, d \in files \ K : k.mtime >= d.mtime }
    ELSE {files}

\* cleanupOldLogs(): a throw of readdirSync, of statSync or of the first
\* unlinkSync is caught and logged, and nothing is removed
cleanupOldLogs(files, fault) ==
    IF fault \in {"readdir", "statRotated"}
    THEN {files}
    ELSE IF fault = "unlink" /\ Cardinality(files) > KEEP_ROTATED
    THEN {files}
    ELSE KeptRotated(files)

\* renameSync to the name with the timestamp suffix: a rotated file of that
\* very name is replaced, and the modification time moves with the file
Renamed(s, t) ==
    {x \in s.rotated : x.stamp # ToISOString(t)} \cup
        {[stamp |-> ToISOString(t), mtime |-> s.file[1].mtime]}

\* where String.replace('.log', ...) puts the timestamp: at the first '.log'
\* of the path, 0 when the path has none
FirstDotLog(path) ==
    IF \E i \in 1..Len(path) : path[i] = ".log"
    THEN CHOOSE i \in 1..Len(path) :
             path[i] = ".log" /\ \A j \in 1..(i - 1) : path[j] # ".log"
    ELSE 0

\* renameSync(logFilePath, rotatedPath): the file moves when the timestamp
\* went before the extension, stays when rotatedPath is logFilePath itself,
\* and the call throws when the timestamp went into a directory name
RenameOutcome(path) ==
    IF FirstDotLog(path) = Len(path) THEN "rotated"
    ELSE IF FirstDotLog(path) = 0 THEN "same"
    ELSE "throws"

\* rotateLogIfNeeded(): every throw is caught and logged
rotateLogIfNeeded(s, t, fault) ==
    IF s.file = None \/ fault = "stat" THEN {s}
    ELSE IF ~RotateNeeded(s) \/ fault = "rename" THEN {s}
    ELSE IF RenameOutcome(s.logFilePath) = "throws" THEN {s}
    ELSE IF RenameOutcome(s.logFilePath) = "same"
    THEN { [s EXCEPT !.rotated = R] : R \in cleanupOldLogs(s.rotated, fault) }
    ELSE { [s EXCEPT !.file = None, !.rotated = R] :
             R \in cleanupOldLogs(Renamed(s, t), fault) }

\* fs.appendFileSync(this.logFilePath, line), which creates a missing file
Appended(s, n, t) ==
    [s EXCEPT !.file = Some([size  |-> n + (IF s.file = None THEN 0
                                            ELSE s.file[1].size),
                             mtime |-> t])]

\* a sink whose append is outside the try block
writeToFile_NoCatch(s, logEntry, t, fault) ==
    IF ~s.persistentLogging THEN {[sink |-> s, threw |-> FALSE]}
    ELSE { IF fault = "append" THEN [sink |-> s2, threw |-> TRUE]
           ELSE [sink |-> Appended(s2, LineBytes(logEntry), t), threw |-> FALSE] :
             s2 \in rotateLogIfNeeded(s, t, fault) }

\* writeToFile(entry): the sinks it may leave, and whether it threw
writeToFile(s, logEntry, t, fault) ==
    IF ~s.persistentLogging THEN {[sink |-> s, threw |-> FALSE]}
    ELSE { IF fault = "append" THEN [sink |-> s2, threw |-> FALSE]
           ELSE [sink |-> Appended(s2, LineBytes(logEntry), t), threw |-> FALSE] :
             s2 \in rotateLogIfNeeded(s, t, fault) }

\* add(entry): the insert in memory, then the write to the sink; a throw
\* of the write would leave add without a returned entry
add(entry, r) ==
    /\ nAdds < MaxAdds
    /\ logs' = Unshift(logs, NewLogEntry(entry, r), maxEntries)
    /\ nAdds' = nAdds + 1
    /\ \E fault \in sink.faults :
         \E w \in writeToFile(sink, NewLogEntry(entry, r), now, fault) :
            /\ sink' = w.sink
            /\ lastCall' = [op |-> "add", arg |-> entry,
                            ret |-> NewLogEntry(entry, r), removed |-> 0,
                            fault |-> fault, threw |-> w.threw]
    /\ UNCHANGED <<maxEntries, ipPool, nextSweep>>

\* a call of add by itself
Add(entry, r) ==
    /\ add(entry, r)
    /\ UNCHANGED <<now, ticks, tickSteps, clientVars, roblox, botVars>>

AddStep == \E entry \in EntryInputs, r \in RandSuffixes : Add(entry, r)

\* a sweep that empties the buffer
Cleanup_Clears ==
    /\ now >= nextSweep
    /\ logs' = << >>
    /\ nextSweep' = now + CLEANUP_INTERVAL
    /\ lastCall' = [op |-> "cleanup", arg |-> None, ret |-> None,
                    removed |-> Len(logs), fault |-> "none", threw |-> FALSE]
    /\ UNCHANGED <<now, ticks, tickSteps, maxEntries, nAdds, ipPool, sink,
                   clientVars, roblox, botVars>>

\* the interval callback of startCleanup, due every CLEANUP_INTERVAL
Cleanup ==
    /\ now >= nextSweep
    /\ logs' = SelectSeq(logs, LAMBDA log : KeptByCleanup(log, now))
    /\ nextSweep' = now + CLEANUP_INTERVAL
    /\ lastCall' = [op |-> "cleanup", arg |-> None, ret |-> None,
                    removed |-> Len(logs) -
                        Len(SelectSeq(logs, LAMBDA log : KeptByCleanup(log, now))),
                    fault |-> "none", threw |-> FALSE]
    /\ UNCHANGED <<now, ticks, tickSteps, maxEntries, nAdds, ipPool, sink,
                   clientVars, roblox, botVars>>

DEFAULT_LIMIT == 50    \* getAll: options.limit || 50

\* Array.prototype.slice(start, end): a negative index counts from the end
slice(arr, start, end) ==
    LET from == IF start < 0 THEN Max(Len(arr) + start, 0) ELSE Min(start, Len(arr))
        to == IF end < 0 THEN Max(Len(arr) + end, 0) ELSE Min(end, Len(arr))
    IN  IF from < to THEN SubSeq(arr, from + 1, to) ELSE << >>

\* a query that forgets the filter by user
getAll_NoUserFilter(buf, options) ==
    LET byAction == IF options.action # None /\ options.action # Some("")
                    THEN SelectSeq(buf, LAMBDA log : log.action = options.action[1])
                    ELSE buf
        filtered == IF options.success # None
                    THEN SelectSeq(byAction, LAMBDA log : log.success = options.success[1])
                    ELSE byAction
        limit == IF options.limit # None /\ options.limit # Some(0)
                 THEN options.limit[1] ELSE DEFAULT_LIMIT
        offset == IF options.offset # None THEN options.offset[1] ELSE 0
    IN  [logs |-> slice(filtered, offset, offset + limit),
         total |-> Len(filtered), limit |-> limit, offset |-> offset]

\* getAll(options): if (options.action), if (options.success !== undefined),
\* if (options.userId), options.limit || 50, options.offset || 0
getAll(buf, options) ==
    LET byAction == IF options.action # None /\ options.action # Some("")
                    THEN SelectSeq(buf, LAMBDA log : log.action = options.action[1])
                    ELSE buf
        bySuccess == IF options.success # None
                     THEN SelectSeq(byAction, LAMBDA log : log.success = options.success[1])
                     ELSE byAction
        filtered == IF options.userId # None /\ options.userId # Some(0)
                    THEN SelectSeq(bySuccess, LAMBDA log : log.userId = options.userId[1])
                    ELSE bySuccess
        limit == IF options.limit # None /\ options.limit # Some(0)
                 THEN options.limit[1] ELSE DEFAULT_LIMIT
        offset == IF options.offset # None THEN options.offset[1] ELSE 0
    IN  [logs |-> slice(filtered, offset, offset + limit),
         total |-> Len(filtered), limit |-> limit, offset |-> offset]

\* getStats(): total, successful, failed and the count of each action
getStats(buf) ==
    [total |-> Len(buf),
     successful |-> Len(SelectSeq(buf, LAMBDA l : l.success)),
     failed |-> Len(SelectSeq(buf, LAMBDA l : ~l.success)),
     byAction |-> [a \in {buf[i].action : i \in 1..Len(buf)} |->
                      Cardinality({i \in 1..Len(buf) : buf[i].action = a})]]

\* a call of getAll
GetAll(options) ==
    /\ lastCall' = [op |-> "getAll", arg |-> options,
                    ret |-> getAll(logs, options), removed |-> 0,
                    fault |-> "none", threw |-> FALSE]
    /\ UNCHANGED <<now, ticks, tickSteps, logs, maxEntries, nAdds, ipPool,
                   nextSweep, sink, clientVars, roblox, botVars>>

\* a call of getStats
GetStats ==
    /\ lastCall' = [op |-> "getStats", arg |-> None,
                    ret |-> getStats(logs), removed |-> 0,
                    fault |-> "none", threw |-> FALSE]
    /\ UNCHANGED <<now, ticks, tickSteps, logs, maxEntries, nAdds, ipPool,
                   nextSweep, sink, clientVars, roblox, botVars>>

\* the clock advances
Tick ==
    /\ ticks < MaxTicks
    /\ \E d \in tickSteps : now' = now + d
    /\ ticks' = ticks + 1
    /\ UNCHANGED <<tickSteps, auditVars, clientVars, roblox, botVars>>


----------------------------------------------------------------------------
(* The Roblox client: the role directory built by initialize() *)

MaxRoles == 2      \* roles in one answer of noblox.getRoles
MaxNameLen == 1    \* characters in one role name

\* the characters of role names: two ASCII letters and the dotless i, whose
\* upper case is the ASCII I
Letters == {"a", "A", "dotless_i"}

\* the characters of the names looked up
LookupLetters == Letters \cup {"I"}

\* String.prototype.toLowerCase on one character
toLowerCaseChar(c) ==
    IF c = "A" THEN "a" ELSE IF c = "I" THEN "i" ELSE c

\* String.prototype.toUpperCase on one character
toUpperCaseChar(c) ==
    IF c = "a" THEN "A" ELSE IF c \in {"i", "dotless_i"} THEN "I" ELSE c

\* name.toLowerCase()
toLowerCase(name) == [i \in 1..Len(name) |-> toLowerCaseChar(name[i])]

NamesOver(letters) ==
    UNION { [1..n -> letters] : n \in 1..MaxNameLen }

\* what noblox.getRoles may answer: roles of any names and ranks, equal
\* ones included, each with its own role id
RoleLists ==
    UNION { { [i \in 1..n |-> [id |-> i, name |-> names[i], rank |-> ranks[i]]] :
                names \in [1..n -> NamesOver(Letters)],
                ranks \in [1..n -> 1..2] } : n \in 0..MaxRoles }

\* new Map(groupRoles.map(role => [key, role])): of two roles of one key
\* the later one stays
MapOf(roles, keys) ==
    [k \in {keys[i] : i \in 1..Len(roles)} |->
        roles[CHOOSE i \in 1..Len(roles) :
                 /\ keys[i] = k
                 /\ \A j \in (i + 1)..Len(roles) : keys[j] # k]]

\* Map.prototype.get, undefined for a missing key
MapGet(map, k) == IF k \in DOMAIN map THEN Some(map[k]) ELSE None

\* the keys of rolesByRank and of rolesByName, role by role
RankKeys(roles) == [i \in 1..Len(roles) |-> roles[i].rank]
NameKeys(roles) == [i \in 1..Len(roles) |-> toLowerCase(roles[i].name)]

RECURSIVE sortByRank(_)

\* a directory that keeps the roles in the order of the answer
sortByRank_AsGiven(roles) == roles

\* [...groupRoles].sort((a, b) => a.rank - b.rank), a stable sort
sortByRank(roles) ==
    IF roles = << >> THEN << >>
    ELSE LET rest == sortByRank(Tail(roles))
             k == Cardinality({i \in 1..Len(rest) : rest[i].rank < Head(roles).rank})
         IN  SubSeq(rest, 1, k) \o <<Head(roles)>> \o SubSeq(rest, k + 1, Len(rest))

NoCall == [fn |-> "none", rank |-> 0, name |-> << >>]

\* no request handled by the ranking service yet
NoRequest ==
    [fn |-> "none", user |-> 0, cur |-> 0, target |-> None, outcome |-> "none"]

\* MIN_RANK and MAX_RANK when the environment does not set them
DefaultLimits == [minRank |-> 1, maxRank |-> 255]

\* the module after loading: no roles yet, two empty maps
RobloxNew ==
    [groupRoles |-> None, sortedGroupRoles |-> None,
     rolesByRank |-> << >>, rolesByName |-> << >>,
     botRankInGroup |-> None, call |-> NoCall, found |-> None,
     limits |-> DefaultLimits, request |-> NoRequest,
     awaiting |-> "none", nInit |-> 0, value |-> None]

\* initialize(): once at startup; a bot that is not in the group (rank 0)
\* ends the process
initialize(roles, botRank) ==
    /\ roblox.groupRoles = None
    /\ botRank # 0
    /\ roblox' = [roblox EXCEPT
                    !.groupRoles     = Some(roles),
                    !.sortedGroupRoles = Some(sortByRank(roles)),
                    !.rolesByRank    = MapOf(roles, RankKeys(roles)),
                    !.rolesByName    = MapOf(roles, NameKeys(roles)),
                    !.botRankInGroup = Some(botRank),
                    !.call           = [NoCall EXCEPT !.fn = "initialize"],
                    !.found          = None]
    /\ UNCHANGED <<now, ticks, tickSteps, auditVars, clientVars, botVars>>

getRoleByRank(rank) ==
    /\ roblox' = [roblox EXCEPT
                    !.call = [NoCall EXCEPT !.fn = "getRoleByRank", !.rank = rank],
                    !.found = MapGet(roblox.rolesByRank, rank)]
    /\ UNCHANGED <<now, ticks, tickSteps, auditVars, clientVars, botVars>>

getRoleByName(name) ==
    /\ roblox' = [roblox EXCEPT
                    !.call = [NoCall EXCEPT !.fn = "getRoleByName", !.name = name],
                    !.found = MapGet(roblox.rolesByName, toLowerCase(name))]
    /\ UNCHANGED <<now, ticks, tickSteps, auditVars, clientVars, botVars>>

\* getGroupRoles(): the array of the last answer itself
getGroupRoles ==
    /\ roblox' = [roblox EXCEPT !.call = [NoCall EXCEPT !.fn = "getGroupRoles"],
                                !.value = roblox.groupRoles]
    /\ UNCHANGED <<now, ticks, tickSteps, auditVars, clientVars, botVars>>

\* a getter that sorts the array of the answer where it is
getSortedRoles_SortsInPlace ==
    /\ roblox.groupRoles # None
    /\ roblox' = [roblox EXCEPT !.call = [NoCall EXCEPT !.fn = "getSortedRoles"],
                                !.groupRoles = Some(sortByRank(roblox.groupRoles[1])),
                                !.value = Some(sortByRank(roblox.groupRoles[1]))]
    /\ UNCHANGED <<now, ticks, tickSteps, auditVars, clientVars, botVars>>

\* getSortedRoles(): the sorted array
getSortedRoles ==
    /\ roblox' = [roblox EXCEPT !.call = [NoCall EXCEPT !.fn = "getSortedRoles"],
                                !.value = roblox.sortedGroupRoles]
    /\ UNCHANGED <<now, ticks, tickSteps, auditVars, clientVars, botVars>>

\* a call of getBotRank()
getBotRankCalled ==
    /\ roblox' = [roblox EXCEPT !.call = [NoCall EXCEPT !.fn = "getBotRank"],
                                !.value = roblox.botRankInGroup]
    /\ UNCHANGED <<now, ticks, tickSteps, auditVars, clientVars, botVars>>

MaxInits == 2      \* calls of initialize() in one behaviour

\* initialize() from its call to its await of noblox.getRoles; the login
\* awaited before it leaves the directory as it is
initializeCalled ==
    /\ roblox.awaiting = "none"
    /\ roblox.nInit < MaxInits
    /\ roblox' = [roblox EXCEPT !.awaiting = "getRoles", !.nInit = @ + 1]
    /\ UNCHANGED <<now, ticks, tickSteps, auditVars, clientVars, botVars>>

\* a refresh that builds the map of names after its next await
initializeRoles_NamesLater(roles) ==
    /\ roblox.awaiting = "getRoles"
    /\ roblox' = [roblox EXCEPT
                    !.groupRoles     = Some(roles),
                    !.sortedGroupRoles = Some(sortByRank(roles)),
                    !.rolesByRank    = MapOf(roles, RankKeys(roles)),
                    !.awaiting       = "getRankInGroup"]
    /\ UNCHANGED <<now, ticks, tickSteps, auditVars, clientVars, botVars>>

\* initialize() from the answer of noblox.getRoles to its await of
\* noblox.getRankInGroup: groupRoles and the three structures built of it
initializeRoles(roles) ==
    /\ roblox.awaiting = "getRoles"
    /\ roblox' = [roblox EXCEPT
                    !.groupRoles     = Some(roles),
                    !.sortedGroupRoles = Some(sortByRank(roles)),
                    !.rolesByRank    = MapOf(roles, RankKeys(roles)),
                    !.rolesByName    = MapOf(roles, NameKeys(roles)),
                    !.awaiting       = "getRankInGroup"]
    /\ UNCHANGED <<now, ticks, tickSteps, auditVars, clientVars, botVars>>

\* initialize() from the answer of noblox.getRankInGroup to its return; a
\* bot that is not in the group (rank 0) ends the process
initializeRank(botRank) ==
    /\ roblox.awaiting = "getRankInGroup"
    /\ botRank # 0
    /\ roblox' = [roblox EXCEPT !.botRankInGroup = Some(botRank),
                                !.awaiting = "none"]
    /\ UNCHANGED <<now, ticks, tickSteps, auditVars, clientVars, botVars>>

\* a bot that takes itself for one rank higher than it is
getBotRank_OneAbove(rb) == Some(rb.botRankInGroup[1] + 1)

\* getBotRank(): botRankInGroup as initialize() stored it
getBotRank(rb) == rb.botRankInGroup

\* a filter that takes the bot's own role for one it may assign
rankableRoles_UpToBot(roles, botRank) ==
    SelectSeq(roles, LAMBDA role : role.rank <= botRank /\ role.rank > 0)

\* the filter of rankableRoles: role.rank < botRank && role.rank > 0
rankableRoles(roles, botRank) ==
    SelectSeq(roles, LAMBDA role : role.rank < botRank /\ role.rank > 0)


----------------------------------------------------------------------------
(* The rank-change policy of the service, which acts on the directory *)

\* target >= bot's own rank, or outside the configured [minRank, maxRank]
PermissionDenied(target, rb) ==
    \/ target >= getBotRank(rb)[1]
    \/ target < rb.limits.minRank
    \/ target > rb.limits.maxRank

\* the ranks of the tiers the bot may assign
AssignableRanks(rb) ==
    { rankableRoles(rb.groupRoles[1], getBotRank(rb)[1])[i].rank :
        i \in 1..Len(rankableRoles(rb.groupRoles[1], getBotRank(rb)[1])) }

\* nextAssignableAbove and nextAssignableBelow: a scan of the sorted roles
\* for the first assignable tier above the rank, or the last one below it;
\* none at a boundary of the directory
NextAssignable(fn, cur, rb) ==
    LET tiers == rankableRoles(rb.sortedGroupRoles[1], getBotRank(rb)[1])
        up    == {i \in 1..Len(tiers) : tiers[i].rank > cur}
        down  == {i \in 1..Len(tiers) : tiers[i].rank < cur}
    IN  IF fn = "promote"
        THEN (IF up = {} THEN None
              ELSE Some(tiers[CHOOSE i \in up : \A j \in up : i <= j].rank))
        ELSE (IF down = {} THEN None
              ELSE Some(tiers[CHOOSE i \in down : \A j \in down : i >= j].rank))

\* how a request ends: the target is resolved in the directory, refused
\* when the bot may not assign it, and compared with the current rank
\* before any mutating call is made
PolicyOutcome(target, cur, rb) ==
    IF target = None THEN "unchanged"
    ELSE IF MapGet(rb.rolesByRank, target[1]) = None THEN "NotFoundError"
    ELSE IF PermissionDenied(target[1], rb) THEN "PermissionError"
    ELSE IF cur = 0 THEN "NotFoundError"
    ELSE IF cur = target[1] THEN "unchanged"
    ELSE "changed"

\* setRank, promote or demote of one user, run to its end
PolicyHandled(fn, user, n) ==
    LET target == IF fn = "setRank" THEN Some(n)
                  ELSE NextAssignable(fn, srvRank[user], roblox)
        outcome == PolicyOutcome(target, srvRank[user], roblox)
    IN  /\ roblox.groupRoles # None
        /\ roblox' = [roblox EXCEPT !.request =
                         [fn |-> fn, user |-> user, cur |-> srvRank[user],
                          target |-> target, outcome |-> outcome]]
        /\ srvRank' = IF outcome = "changed"
                      THEN [srvRank EXCEPT ![user] = target[1]]
                      ELSE srvRank
        /\ UNCHANGED <<now, ticks, tickSteps, reqVars, isHealthy,
                       lastHealthCheck, cache, lastAction, buttons, env, botVars>>

\* a request by itself
PolicyRequest(fn, user, n) ==
    /\ PolicyHandled(fn, user, n)
    /\ UNCHANGED auditVars

\* what the service passes to the audit log for the request it handled
AuditEntryOf(request, a) ==
    [action     |-> request.fn,
     userId     |-> request.user,
     username   |-> None,
     targetRank |-> request.target,
     oldRank    |-> Some(request.cur),
     newRank    |-> IF request.outcome = "changed" THEN request.target ELSE None,
     success    |-> request.outcome \in {"changed", "unchanged"},
     error      |-> IF request.outcome \in {"changed", "unchanged"} THEN None
                    ELSE Some(request.outcome),
     ip         |-> a]

\* a request that is handled and then recorded in the audit log
AuditedRequest(fn, user, n) ==
    /\ PolicyHandled(fn, user, n)
    /\ \E a \in ipPool, r \in RandSuffixes : add(AuditEntryOf(roblox'.request, a), r)


----------------------------------------------------------------------------
(* SessionMonitor: the periodic probe of the connection account's session *)

MaxProbes == 3                     \* probes in one behaviour
SESSION_HEALTH_INTERVAL == 60000   \* SESSION_HEALTH_INTERVAL, its default

\* what one probe may find: the platform answers and the account is fine, the
\* platform answers and the account is in trouble, the probe fails, the
\* credential is rejected
ProbeResults == {"ok", "accountTrouble", "probeFailed", "credentialRejected"}

SessionState(result) ==
    CASE result = "ok" -> "healthy"
      [] result = "accountTrouble" -> "degraded"
      [] OTHER -> "unhealthy"

\* a monitor that reports every failing probe
EntersUnhealthy_EveryFailure(old, new) == new = "unhealthy"

\* the notification is for the transition into unhealthy
EntersUnhealthy(old, new) == new = "unhealthy" /\ old # "unhealthy"

SessionNew ==
    [state |-> "healthy", before |-> "healthy", status |-> "healthy",
     notifications |-> 0, credential |-> 1, probes |-> 0, nextProbe |-> SESSION_HEALTH_INTERVAL]

\* one probe, its classification, the notification and the status value
Probed(result, due) ==
    LET new == SessionState(result)
    IN  /\ session.probes < MaxProbes
        /\ session' = [session EXCEPT
                         !.state = new,
                         !.before = session.state,
                         !.status = new,
                         !.notifications =
                             IF EntersUnhealthy(session.state, new)
                             THEN @ + 1 ELSE @,
                         !.probes = @ + 1,
                         !.nextProbe = due]
        /\ UNCHANGED <<now, ticks, tickSteps, auditVars, clientVars, roblox,
                       cooldowns, game>>

\* the probe the interval timer runs
SessionProbe(result) ==
    /\ now >= session.nextProbe
    /\ Probed(result, session.nextProbe + SESSION_HEALTH_INTERVAL)

\* POST /api/session/check: a probe on demand
SessionCheck(result) == Probed(result, session.nextProbe)


----------------------------------------------------------------------------
(* The bot: config.options.commandCooldown and checkCooldown() *)

MaxChecks == 3                 \* checkCooldown calls in one behaviour
DEFAULT_COOLDOWN == 3          \* parseInt(process.env.COMMAND_COOLDOWN) || 3
COOLDOWNS_SWEEP_SIZE == 1000   \* if (cooldowns.size > 1000)

DecimalDigits == <<"0", "1", "2", "3", "4", "5", "6", "7", "8", "9">>

IsDigit(c) == \E i \in 1..10 : DecimalDigits[i] = c

DigitValue(c) == (CHOOSE i \in 1..10 : DecimalDigits[i] = c) - 1

RECURSIVE LeadingDigits(_)
LeadingDigits(s) ==
    IF s = << >> \/ ~IsDigit(Head(s)) THEN << >>
    ELSE <<Head(s)>> \o LeadingDigits(Tail(s))

RECURSIVE DigitsValue(_)
DigitsValue(ds) ==
    IF ds = << >> THEN 0
    ELSE 10 * DigitsValue(SubSeq(ds, 1, Len(ds) - 1)) + DigitValue(ds[Len(ds)])

RECURSIVE TrimStart(_)
TrimStart(s) == IF s # << >> /\ Head(s) = " " THEN TrimStart(Tail(s)) ELSE s

\* parseInt(string) of a string without a 0x prefix: leading blanks, a sign,
\* then the decimal digits up to the first other character; NaN (None) when
\* there is no digit. parseInt(undefined) is NaN.
parseInt(value) ==
    IF value = None THEN None
    ELSE LET t == TrimStart(value[1])
             signed == t # << >> /\ Head(t) \in {"-", "+"}
             ds == LeadingDigits(IF signed THEN Tail(t) ELSE t)
         IN  IF ds = << >> THEN None
             ELSE IF signed /\ Head(t) = "-" THEN Some(0 - DigitsValue(ds))
             ELSE Some(DigitsValue(ds))

\* a configuration that takes the number as it is parsed
commandCooldown_AsParsed(value) ==
    IF parseInt(value) = None THEN DEFAULT_COOLDOWN ELSE parseInt(value)[1]

\* config.options.commandCooldown: NaN and 0 are falsy, so || takes the default
commandCooldown(value) ==
    IF parseInt(value) = None \/ parseInt(value) = Some(0)
    THEN DEFAULT_COOLDOWN
    ELSE parseInt(value)[1]

CooldownsNew ==
    [COMMAND_COOLDOWN |-> None, map |-> << >>, checks |-> 0,
     key |-> << >>, remaining |-> None]

\* Math.ceil(ms / 1000) of a positive number of milliseconds
CeilSeconds(ms) == (ms + 999) \div 1000

\* a check that still rejects at the moment the cooldown ends
checkCooldown_RejectsAtExpiry(map, commandName, userId, cooldownSeconds, t) ==
    LET key == <<commandName, userId>>
        set == [k \in DOMAIN map \cup {key} |->
                    IF k = key THEN t + cooldownSeconds * 1000 ELSE map[k]]
    IN  IF cooldownSeconds <= 0 THEN [map |-> map, remaining |-> None]
        ELSE IF key \in DOMAIN map /\ map[key] # 0 /\ t <= map[key]
        THEN [map |-> map, remaining |-> Some(CeilSeconds(map[key] - t))]
        ELSE [map |-> set, remaining |-> None]

\* checkCooldown(commandName, userId, cooldownSeconds): the map and the
\* result afterwards
checkCooldown(map, commandName, userId, cooldownSeconds, t) ==
    LET key == <<commandName, userId>>
        set == [k \in DOMAIN map \cup {key} |->
                    IF k = key THEN t + cooldownSeconds * 1000 ELSE map[k]]
        swept == [k \in {x \in DOMAIN set : ~(t > set[x])} |-> set[k]]
    IN  IF cooldownSeconds <= 0 THEN [map |-> map, remaining |-> None]
        ELSE IF key \in DOMAIN map /\ map[key] # 0 /\ t < map[key]
        THEN [map |-> map, remaining |-> Some(CeilSeconds(map[key] - t))]
        ELSE [map |-> IF Cardinality(DOMAIN set) > COOLDOWNS_SWEEP_SIZE
                      THEN swept ELSE set,
              remaining |-> None]

\* applyCooldown(interaction): checkCooldown with the configured cooldown
applyCooldown(commandName, userId) ==
    LET c == checkCooldown(cooldowns.map, commandName, userId,
                           commandCooldown(cooldowns.COMMAND_COOLDOWN), now)
    IN  /\ cooldowns.checks < MaxChecks
        /\ cooldowns' = [cooldowns EXCEPT
                           !.map = c.map,
                           !.checks = @ + 1,
                           !.key = <<commandName, userId>>,
                           !.remaining = c.remaining]
        /\ UNCHANGED <<now, ticks, tickSteps, auditVars, clientVars, roblox,
                       session, game>>


----------------------------------------------------------------------------
(* The game-side module of src/API.md: the request queue and its processor *)

MAX_QUEUE_SIZE == 50     \* CONFIG.MAX_QUEUE_SIZE
MaxQueued == 52          \* requests the game queues in one run

\* the module as it is loaded: the queue empty, the processor between two
\* calls of processQueue.  queued counts the calls of queueRequest and
\* numbers the requests, lastSent is the number of the request handed to
\* makeRequest last, loops counts the processQueue loops under way
GameNew ==
    [requestQueue |-> << >>, isProcessingQueue |-> FALSE, pc |-> "asleep",
     request |-> None, queued |-> 0, lastSent |-> 0, loops |-> 0]

gameRest == <<now, ticks, tickSteps, auditVars, clientVars, roblox, cooldowns,
              session>>

\* a queue that takes every request
queueRequest_KeepsAll(queue, request) == Append(queue, request)

\* queueRequest: table.remove(requestQueue, 1) when full, then table.insert
queueRequest(queue, request) ==
    Append(IF Len(queue) >= MAX_QUEUE_SIZE THEN Tail(queue) ELSE queue,
           request)

\* QueueSetRank, QueuePromote, QueueDemote with ENABLE_QUEUE: the endpoint,
\* body and callback travel with the request and are not looked at
QueueAsync ==
    /\ game.queued < MaxQueued
    /\ game' = [game EXCEPT
                  !.requestQueue = queueRequest(@, game.queued + 1),
                  !.queued = @ + 1]
    /\ UNCHANGED gameRest

\* RankingAPI:ClearQueue
ClearQueue ==
    /\ game' = [game EXCEPT !.requestQueue = << >>]
    /\ UNCHANGED gameRest

\* the head of the queue is removed and handed to makeRequest, which yields
SendNext(g) ==
    [g EXCEPT !.request = Some(Head(g.requestQueue)),
              !.lastSent = Head(g.requestQueue),
              !.requestQueue = Tail(g.requestQueue),
              !.pc = "request"]

\* the processor thread wakes from task.wait(1) and calls processQueue,
\* which returns at once or enters its loop
processQueue ==
    /\ game.pc = "asleep"
    /\ game' = IF game.isProcessingQueue \/ Len(game.requestQueue) = 0
               THEN game
               ELSE SendNext([game EXCEPT !.isProcessingQueue = TRUE,
                                          !.loops = @ + 1])
    /\ UNCHANGED gameRest

\* makeRequest returns, the callback is spawned, task.wait(0.1) begins
RequestDone ==
    /\ game.pc = "request"
    /\ game' = [game EXCEPT !.request = None, !.pc = "pause"]
    /\ UNCHANGED gameRest

\* task.wait(0.1) is over: the test of the loop, then the next request or
\* the end of processQueue and task.wait(1)
PauseDone ==
    /\ game.pc = "pause"
    /\ game' = IF Len(game.requestQueue) > 0
               THEN SendNext(game)
               ELSE [game EXCEPT !.isProcessingQueue = FALSE,
                                 !.loops = @ - 1,
                                 !.pc = "asleep"]
    /\ UNCHANGED gameRest

----------------------------------------------------------------------------
(* RankBotAPI: constants, errors and the retry policy of request() *)

MAX_RETRIES == 3
BASE_DELAY == 1000
MAX_DELAY == 10000
RETRYABLE_CODES == {408, 429, 500, 502, 503, 504}
HEALTH_RETRIES == 1              \* health(), ready(): { retries: 1 }
ROLES_TTL == 300000              \* CACHE_TTL.ROLES
HEALTH_TTL == 30000              \* CACHE_TTL.HEALTH
GROUP_TTL == 600000              \* CACHE_TTL.GROUP
PERMISSIONS_TTL == 300000        \* CACHE_TTL.PERMISSIONS
UNDO_EXPIRY == 300000            \* getLastAction: 5 * 60 * 1000

\* new APIError(message, status, code)
APIError(status, code) == [status |-> status, code |-> code]

isConnectionError(err) == err.code = "E_CONNECTION" \/ err.code = "E_TIMEOUT"

isRateLimited(err) == err.status = 429

\* new APIError(..., response.status, data.errorCode || 'E_API_ERROR')
ResponseError(resp) ==
    APIError(resp.status,
             IF resp.errorCode = None THEN "E_API_ERROR" ELSE resp.errorCode[1])

RECURSIVE Pow2(_)
Pow2(n) == IF n = 0 THEN 1 ELSE 2 * Pow2(n - 1)

\* Math.random() * 1000, sampled at its ends
Jitters == {0, 999}

Users == {1, 2}
Ranks == {1, 10, 50}

\* a backoff without its cap
getRetryDelay_Uncapped(k, jitter) == BASE_DELAY * Pow2(k) + jitter

getRetryDelay(k, jitter) == Min(BASE_DELAY * Pow2(k) + jitter, MAX_DELAY)

\* line 175: RETRYABLE_CODES.includes(response.status) && attempt < retries
RetryOnStatus(status, att, R) == status \in RETRYABLE_CODES /\ att < R

\* a catch block without its 'instanceof APIError' branch
CaughtError_NoAPIErrorBranch(resp) ==
    IF resp.kind = "abort" THEN APIError(408, "E_TIMEOUT")
    ELSE APIError(0, "E_CONNECTION")

\* the error a failed attempt leaves in lastError (the catch block)
CaughtError(resp) ==
    IF resp.kind = "abort" THEN APIError(408, "E_TIMEOUT")
    ELSE IF resp.kind = "http" THEN ResponseError(resp)
    ELSE APIError(0, "E_CONNECTION")

\* the catch block sets isHealthy = false in its last branch alone
MarksUnhealthy(resp) == resp.kind # "abort" /\ resp.kind # "http"

\* line 213: attempt < retries && !(error instanceof APIError &&
\*           !RETRYABLE_CODES.includes(error.status))
RetryOnCatch(resp, att, R) ==
    att < R /\ ~(resp.kind = "http" /\ resp.status \notin RETRYABLE_CODES)

----------------------------------------------------------------------------
(* The ranking service, as the client sees it *)

RoleName(r) == IF r = 1 THEN "Guest" ELSE IF r = 10 THEN "Member" ELSE "Moderator"

Above(r) == {x \in Ranks : x > r}
Below(r) == {x \in Ranks : x < r}

\* the rank a request asks for, given the user's current rank
TargetRank(o, cur) ==
    IF o.name = "promote"
    THEN (IF Above(cur) = {} THEN cur
          ELSE CHOOSE x \in Above(cur) : \A y \in Above(cur) : x <= y)
    ELSE IF o.name = "demote"
    THEN (IF Below(cur) = {} THEN cur
          ELSE CHOOSE x \in Below(cur) : \A y \in Below(cur) : x >= y)
    ELSE o.rank

IsMutating(o) == o.name \in {"setRank", "promote", "demote", "undo"}

\* the member an item of a bulk request names, none for a malformed id or
\* an unknown username
ItemUser(item) ==
    IF item.userId # None
    THEN (IF item.userId[1] \in Users THEN item.userId ELSE None)
    ELSE IF item.username = Some("alice") THEN Some(1)
    ELSE IF item.username = Some("bob") THEN Some(2)
    ELSE None

\* the rank an item asks for, by number or by the name of a role
ItemRank(item) ==
    IF item.rank # None
    THEN (IF item.rank[1] \in Ranks THEN item.rank ELSE None)
    ELSE IF \E r \in Ranks : item.rankName = Some(RoleName(r))
    THEN Some(CHOOSE r \in Ranks : item.rankName = Some(RoleName(r)))
    ELSE None

RECURSIVE BulkAfter(_, _)
\* POST /api/rank/bulk: the ranks after the items were handled one by one,
\* an item that fails leaving the ranks to the next one as they were
BulkAfter(items, srv) ==
    IF items = << >> THEN srv
    ELSE BulkAfter(Tail(items),
                   IF ItemUser(Head(items)) # None /\ ItemRank(Head(items)) # None
                   THEN [srv EXCEPT ![ItemUser(Head(items))[1]] =
                                        ItemRank(Head(items))[1]]
                   ELSE srv)

\* the itemized results of a bulk request
BulkResults(items, srv) ==
    [i \in 1..Len(items) |->
        IF ItemUser(items[i]) = None
        THEN [success |-> FALSE, error |-> Some("E_VALIDATION"), changed |-> FALSE,
              userId |-> None, newRank |-> None]
        ELSE IF ItemRank(items[i]) = None
        THEN [success |-> FALSE, error |-> Some("E_NOT_FOUND"), changed |-> FALSE,
              userId |-> ItemUser(items[i]), newRank |-> None]
        ELSE [success |-> TRUE, error |-> None,
              changed |-> BulkAfter(SubSeq(items, 1, i - 1), srv)
                             [ItemUser(items[i])[1]] # ItemRank(items[i])[1],
              userId |-> ItemUser(items[i]), newRank |-> ItemRank(items[i])]]

\* the ranks after the service has handled the request
ServiceAfter(o, srv) ==
    IF IsMutating(o) THEN [srv EXCEPT ![o.user] = TargetRank(o, srv[o.user])]
    ELSE IF o.name = "bulkRank" THEN BulkAfter(o.items, srv)
    ELSE srv

\* GET /api/roles: the member count of every role
RolesData(srv) == [r \in Ranks |-> Cardinality({u \in Users : srv[u] = r})]

\* the JSON body of a 2xx response
ResponseData(o, srv, resp) ==
    IF IsMutating(o)
    THEN [success |-> TRUE,
          changed |-> TargetRank(o, srv[o.user]) # srv[o.user],
          userId |-> o.user,
          oldRank |-> srv[o.user],
          oldRankName |-> RoleName(srv[o.user]),
          newRank |-> TargetRank(o, srv[o.user]),
          newRankName |-> RoleName(TargetRank(o, srv[o.user]))]
    ELSE IF o.name = "getRoles" THEN [success |-> TRUE, roles |-> RolesData(srv)]
    ELSE IF o.name = "health" THEN [status |-> resp.health]
    ELSE IF o.name = "bulkRank"
    THEN [success |-> TRUE, results |-> BulkResults(o.items, srv)]
    ELSE [success |-> TRUE]

Resp(kind, status, code, processed, health) ==
    [kind |-> kind, status |-> status, errorCode |-> code,
     processed |-> processed, health |-> health]

\* what one fetch() and response.json() can produce for the call o:
\*   ok      a 2xx response with a JSON body
\*   http    a response with an error status and a JSON body
\*   badjson a response whose body response.json() cannot parse
\*   abort   the timeout fired (AbortError)
\*   neterr  fetch() rejected
\* processed tells whether the service handled the request
Responses(o) ==
    {Resp("ok", 200, None, TRUE, h) :
        h \in IF o.name = "health" THEN env.health ELSE {"ok"}}
    \cup {Resp("http", st, c, FALSE, "ok") : st \in env.statuses, c \in env.codes}
    \cup {Resp("badjson", st, None, st = 200, "ok") : st \in env.badjson}
    \cup {Resp(k, 0, None, pr, "ok") :
            k \in env.failures,
            pr \in IF IsMutating(o) \/ o.name = "bulkRank" THEN BOOLEAN
                   ELSE {FALSE}}

----------------------------------------------------------------------------
(* RankBotAPI: the cache and the undo slot *)

CacheKeys == {"roles", "health", "group", "permissions"}

\* a cache whose entries are gone at the moment of their expiry
CacheGet_GoneAtExpiry(store, key, t) ==
    IF store[key] = None THEN [store |-> store, value |-> None]
    ELSE IF t >= store[key][1].expiry
         THEN [store |-> [store EXCEPT ![key] = None], value |-> None]
         ELSE [store |-> store, value |-> Some(store[key][1].data)]

\* Cache.get: the store afterwards and the value returned
CacheGet(store, key, t) ==
    IF store[key] = None THEN [store |-> store, value |-> None]
    ELSE IF t > store[key][1].expiry
         THEN [store |-> [store EXCEPT ![key] = None], value |-> None]
         ELSE [store |-> store, value |-> Some(store[key][1].data)]

\* Cache.set
CacheSet(store, key, data, ttl, t) ==
    [store EXCEPT ![key] = Some([data |-> data, expiry |-> t + ttl])]

EmptyCache == [k \in CacheKeys |-> None]

\* a slot that expires once it is five minutes old, not after that
GetLastActionAt_ExpiresAtFive(slot, t) ==
    IF slot = None THEN [slot |-> None, value |-> None]
    ELSE IF t - slot[1].timestamp >= UNDO_EXPIRY
         THEN [slot |-> None, value |-> None]
         ELSE [slot |-> slot, value |-> slot]

\* getLastAction(): the slot afterwards and the value returned
GetLastActionAt(slot, t) ==
    IF slot = None THEN [slot |-> None, value |-> None]
    ELSE IF t - slot[1].timestamp > UNDO_EXPIRY
         THEN [slot |-> None, value |-> None]
         ELSE [slot |-> slot, value |-> slot]

\* the LastAction a ranking call records from its result
ActionOf(o, result, t) ==
    [type |-> IF o.name = "undo" THEN "rank"
              ELSE IF o.name = "setRank" THEN "rank" ELSE o.name,
     userId |-> o.user,
     oldRank |-> result.oldRank, oldRankName |-> result.oldRankName,
     newRank |-> result.newRank, newRankName |-> result.newRankName,
     timestamp |-> t,
     discordUserId |-> IF o.name = "undo" THEN None ELSE o.meta]

\* a client that stacks the actions instead of overwriting the last one
SlotAfterRanking_Stacks(o, result, slot, t) ==
    IF result.success /\ result.changed
    THEN <<ActionOf(o, result, t)>> \o slot
    ELSE slot

\* a client that records every successful ranking call, changed or not
SlotAfterRanking_IgnoresChanged(o, result, slot, t) ==
    IF result.success THEN Some(ActionOf(o, result, t)) ELSE slot

\* setRank / promote / demote after request() returned:
\* if (result.success && result.changed) this.lastAction = {...}
SlotAfterRanking(o, result, slot, t) ==
    IF result.success /\ result.changed THEN Some(ActionOf(o, result, t)) ELSE slot


----------------------------------------------------------------------------
(* RankBotAPI: the calls *)

Op(name, user, rank, force, action) ==
    [action |-> action, name |-> name, rank |-> rank, user |-> user,
     items |-> << >>, meta |-> None, force |-> force, users |-> << >>]

\* the call o made by a command of the Discord user p, who goes into the
\* metadata of a ranking call: { discordUserId: interaction.user.id, ... }
By(o, p) == [o EXCEPT !.meta = Some(p)]

Returned(value) == [kind |-> "return", value |-> Some(value), error |-> None]
Thrown(err) == [kind |-> "throw", value |-> None, error |-> Some(err)]
Pending == [kind |-> "pending", value |-> None, error |-> None]

\* an attempt that always sleeps first
NextAwait_SleepsFirst(att) == "sleep"

\* lines 155-159: if (attempt > 0) await this.sleep(delay), then fetch()
NextAwait(att) == IF att > 0 THEN "sleep" ELSE "fetch"

\* a call enters request() and reaches the first await of attempt 0
StartRequest(o, R) ==
    /\ pc' = NextAwait(0)
    /\ op' = o
    /\ retries' = R
    /\ attempt' = 0
    /\ lastError' = None
    /\ nFetch' = 0
    /\ nProcessed' = 0
    /\ cacheAtCall' = cache
    /\ nSleep' = 0
    /\ delay' = 0
    /\ lastResp' = None
    /\ same' = None
    /\ ret' = Pending

\* a call ends without entering request()
Finish(o, outcome) ==
    /\ pc' = "idle"
    /\ op' = o
    /\ ret' = outcome
    /\ nFetch' = 0
    /\ nProcessed' = 0
    /\ cacheAtCall' = cache
    /\ nSleep' = 0
    /\ lastResp' = None
    /\ same' = None
    /\ UNCHANGED <<retries, attempt, lastError, delay>>

\* undo() keeps whatever setRank left in the slot
SlotAfterReturn_UndoKeeps(o, data, slot, t) == SlotAfterRanking(o, data, slot, t)

\* the undo slot once request() has returned data to the call o
SlotAfterReturn(o, data, slot, t) ==
    IF o.name = "undo" THEN None        \* setRank, then this.lastAction = null
    ELSE IF IsMutating(o) THEN SlotAfterRanking(o, data, slot, t)
    ELSE slot

\* a client that clears its cache after a ranking call
CacheAfterReturn_Invalidates(o, data, store, t) ==
    IF o.name = "getRoles" THEN CacheSet(store, "roles", data, ROLES_TTL, t)
    ELSE IF o.name = "health" THEN CacheSet(store, "health", data, HEALTH_TTL, t)
    ELSE IF o.name = "getGroup" THEN CacheSet(store, "group", data, GROUP_TTL, t)
    ELSE IF o.name = "getPermissions"
    THEN CacheSet(store, "permissions", data, PERMISSIONS_TTL, t)
    ELSE IF IsMutating(o) THEN EmptyCache
    ELSE store

\* the cache once request() has returned data to the call o
CacheAfterReturn(o, data, store, t) ==
    IF o.name = "getRoles" THEN CacheSet(store, "roles", data, ROLES_TTL, t)
    ELSE IF o.name = "health" THEN CacheSet(store, "health", data, HEALTH_TTL, t)
    ELSE IF o.name = "getGroup" THEN CacheSet(store, "group", data, GROUP_TTL, t)
    ELSE IF o.name = "getPermissions"
    THEN CacheSet(store, "permissions", data, PERMISSIONS_TTL, t)
    ELSE store

\* isHealthy once request() has returned: true, then health()'s own verdict
HealthyAfterReturn(o, data) ==
    IF o.name = "health" THEN data.status = "ok" ELSE TRUE

\* what the call o returns to its caller
ValueReturned(o, data) ==
    IF o.name = "undo"
    THEN [success |-> data.success, changed |-> data.changed,
          userId |-> data.userId,
          oldRank |-> data.oldRank, newRank |-> data.newRank,
          undoneAction |-> o.action[1].type,
          revertedFrom |-> o.action[1].newRankName,
          revertedTo |-> o.action[1].oldRankName]
    ELSE data

\* the slash commands put an Undo button under the reply to a ranking call
\* that changed a rank, and wait one minute for its click
\* (handleUndoButton); calls made without a command show no button
ButtonsAfterReturn(o, data, shown, t) ==
    IF o.name \in {"setRank", "promote", "demote"} /\ o.meta # None
       /\ data.success /\ data.changed
    THEN shown \cup {[by |-> o.meta[1], at |-> t]}
    ELSE shown

\* request() returns data and the call runs to its end; the locals of
\* request() are gone then and are put back to their initial values
Return(data) ==
    /\ pc' = "idle"
    /\ ret' = Returned(ValueReturned(op, data))
    /\ isHealthy' = HealthyAfterReturn(op, data)
    /\ lastHealthCheck' = IF op.name = "health" THEN now ELSE lastHealthCheck
    /\ cache' = CacheAfterReturn(op, data, cache, now)
    /\ lastAction' = SlotAfterReturn(op, data, lastAction, now)
    /\ buttons' = ButtonsAfterReturn(op, data, buttons, now)
    /\ attempt' = 0 /\ lastError' = None /\ delay' = 0
    /\ UNCHANGED <<op, retries, nSleep>>

\* request() throws lastError, and no call catches it
Throw(err, healthy) ==
    /\ pc' = "idle"
    /\ ret' = Thrown(err)
    /\ isHealthy' = healthy
    /\ attempt' = 0 /\ lastError' = None /\ delay' = 0
    /\ UNCHANGED <<op, retries, nSleep, lastHealthCheck, cache, lastAction,
                   buttons>>

\* continue: attempt++ and the test of the loop, attempt <= retries; the
\* next attempt draws its delay and sleeps; after the loop, throw lastError
Continue(err, healthy) ==
    IF attempt + 1 <= retries
    THEN /\ pc' = NextAwait(attempt + 1)
         /\ lastError' = Some(err)
         /\ attempt' = attempt + 1
         /\ \E j \in env.jitters : delay' = getRetryDelay(attempt, j)
         /\ isHealthy' = healthy
         /\ UNCHANGED <<op, retries, nSleep, ret, lastHealthCheck, cache,
                        lastAction, buttons>>
    ELSE Throw(err, healthy)

\* one attempt: fetch(), response.json() and the code up to the next await
Attempt(resp) ==
    /\ nFetch' = nFetch + 1
    /\ nProcessed' = IF resp.processed THEN nProcessed + 1 ELSE nProcessed
    /\ cacheAtCall' = cacheAtCall
    /\ lastResp' = Some(resp)
    /\ same' = IF same = None \/ same = Some(<<resp.kind, resp.status>>)
               THEN Some(<<resp.kind, resp.status>>)
               ELSE Some(<<"mixed", 0>>)
    /\ srvRank' = IF resp.processed THEN ServiceAfter(op, srvRank) ELSE srvRank
    /\ IF resp.kind = "ok"
       THEN Return(ResponseData(op, srvRank, resp))
       ELSE IF resp.kind = "http" /\ RetryOnStatus(resp.status, attempt, retries)
       THEN Continue(ResponseError(resp), isHealthy)
       ELSE IF RetryOnCatch(resp, attempt, retries)
       THEN Continue(CaughtError(resp), isHealthy /\ ~MarksUnhealthy(resp))
       ELSE Throw(CaughtError(resp), isHealthy /\ ~MarksUnhealthy(resp))
    /\ UNCHANGED <<now, ticks, tickSteps, auditVars, roblox, botVars, env>>

FetchDone == pc = "fetch" /\ \E resp \in Responses(op) : Attempt(resp)

\* await this.sleep(delay) is over
SleepDone ==
    /\ pc = "sleep"
    /\ pc' = "fetch"
    /\ nSleep' = nSleep + 1
    /\ UNCHANGED <<op, retries, attempt, lastError, nFetch, nProcessed, delay,
                   lastResp, same, ret, cacheAtCall>>
    /\ UNCHANGED <<isHealthy, lastHealthCheck, cache, lastAction, srvRank, env>>
    /\ UNCHANGED <<now, ticks, tickSteps, auditVars, roblox, botVars, buttons>>

clientRest == <<now, ticks, tickSteps, auditVars, roblox, botVars, srvRank, buttons, env>>

\* request(method, endpoint, body, { retries: R }); ready() has R = 1
CallRequest ==
    /\ pc = "idle"
    /\ \E R \in 0..MAX_RETRIES : StartRequest(Op("request", 0, 0, FALSE, None), R)
    /\ UNCHANGED <<isHealthy, lastHealthCheck, cache, lastAction, clientRest>>

MaxGivenRetries == 5    \* the largest options.retries a caller passes

\* request(method, endpoint, body, { retries }) with the retries a caller
\* chooses
CallRequestWith(R) ==
    /\ pc = "idle"
    /\ StartRequest(Op("request", 0, 0, FALSE, None), R)
    /\ UNCHANGED <<isHealthy, lastHealthCheck, cache, lastAction, clientRest>>

\* a cached fetch that drops the entry of its key before it asks the service
CachedCall_DropsEntry(o, key, R) ==
    /\ pc = "idle"
    /\ IF ~o.force /\ CacheGet(cache, key, now).value # None
       THEN /\ Finish(o, Returned(CacheGet(cache, key, now).value[1]))
            /\ cache' = CacheGet(cache, key, now).store
       ELSE /\ StartRequest(o, R)
            /\ cache' = [cache EXCEPT ![key] = None]
    /\ UNCHANGED <<isHealthy, lastHealthCheck, lastAction, clientRest>>

\* a cached fetch: the cache unless forced, else request() with R retries
CachedCall(o, key, R) ==
    /\ pc = "idle"
    /\ IF ~o.force /\ CacheGet(cache, key, now).value # None
       THEN /\ Finish(o, Returned(CacheGet(cache, key, now).value[1]))
            /\ cache' = CacheGet(cache, key, now).store
       ELSE /\ StartRequest(o, R)
            /\ cache' = IF o.force THEN cache ELSE CacheGet(cache, key, now).store
    /\ UNCHANGED <<isHealthy, lastHealthCheck, lastAction, clientRest>>

CallHealth ==
    \E f \in BOOLEAN :
        CachedCall(Op("health", 0, 0, f, None), "health", HEALTH_RETRIES)

CallGetRoles ==
    \E f \in BOOLEAN :
        CachedCall(Op("getRoles", 0, 0, f, None), "roles", MAX_RETRIES)

CallGetGroup ==
    \E f \in BOOLEAN :
        CachedCall(Op("getGroup", 0, 0, f, None), "group", MAX_RETRIES)

CallGetPermissions ==
    \E f \in BOOLEAN :
        CachedCall(Op("getPermissions", 0, 0, f, None), "permissions",
                   MAX_RETRIES)

RankingCall(o) ==
    /\ pc = "idle"
    /\ StartRequest(o, MAX_RETRIES)
    /\ UNCHANGED <<isHealthy, lastHealthCheck, cache, lastAction, clientRest>>

CallSetRank ==
    \E u \in env.users, r \in Ranks :
        RankingCall(Op("setRank", u, r, FALSE, None))

\* a batch that leaves out the users given by name
bulkUsers_IdsOnly(users, rank) ==
    [i \in 1..Len(SelectSeq(users, LAMBDA user : user.type = "id")) |->
        [userId   |-> Some(SelectSeq(users, LAMBDA user : user.type = "id")[i].id),
         username |-> None,
         rank     |-> IF rank.numeric THEN Some(rank.n) ELSE None,
         rankName |-> IF rank.numeric THEN None ELSE Some(rank.name)]]

\* handleRank: users.map(user => ...), an entry { userId } or { username }
\* with rank: parseInt(rank) when the rank is all digits, else rankName
bulkUsers(users, rank) ==
    [i \in 1..Len(users) |->
        [userId   |-> IF users[i].type = "id" THEN Some(users[i].id) ELSE None,
         username |-> IF users[i].type = "id" THEN None ELSE Some(users[i].name),
         rank     |-> IF rank.numeric THEN Some(rank.n) ELSE None,
         rankName |-> IF rank.numeric THEN None ELSE Some(rank.name)]]

\* bulkRank(users): one POST /api/rank/bulk through request()
CallBulkRank(items) ==
    RankingCall([Op("bulkRank", 0, 0, FALSE, None) EXCEPT !.items = items])

\* /batch rank, from handleRank on: the validated users become the entries
\* of one bulkRank call
CmdBatchRank(users, rank) ==
    RankingCall([Op("bulkRank", 0, 0, FALSE, None) EXCEPT
                    !.items = bulkUsers(users, rank), !.users = users])

CallPromote ==
    \E u \in env.users : RankingCall(Op("promote", u, 0, FALSE, None))

CallDemote ==
    \E u \in env.users : RankingCall(Op("demote", u, 0, FALSE, None))

\* an undo that sets the rank the action led to, not the one it came from
UndoCall_RevertsToNew(o) ==
    /\ lastAction' = GetLastActionAt(lastAction, now).slot
    /\ IF GetLastActionAt(lastAction, now).value = None
       THEN Finish([o EXCEPT !.action = lastAction],
                   Thrown(APIError(400, "E_NO_UNDO")))
       ELSE StartRequest([o EXCEPT !.user = lastAction[1].userId,
                                   !.rank = lastAction[1].newRank,
                                   !.action = lastAction], MAX_RETRIES)

\* undo(): getLastAction(), then setRank(action.userId, action.oldRank);
\* o.action keeps the slot as undo() found it
UndoCall(o) ==
    /\ lastAction' = GetLastActionAt(lastAction, now).slot
    /\ IF GetLastActionAt(lastAction, now).value = None
       THEN Finish([o EXCEPT !.action = lastAction],
                   Thrown(APIError(400, "E_NO_UNDO")))
       ELSE StartRequest([o EXCEPT !.user = lastAction[1].userId,
                                   !.rank = lastAction[1].oldRank,
                                   !.action = lastAction], MAX_RETRIES)

CallUndo ==
    /\ pc = "idle"
    /\ UndoCall(Op("undo", 0, 0, FALSE, None))
    /\ UNCHANGED <<isHealthy, lastHealthCheck, cache, clientRest>>

\* a second ranking call on the same client, made while the call in progress
\* is suspended at an await: its request is answered at once and it runs
\* from there to its end
OtherCallReturns(o) ==
    /\ pc # "idle"
    /\ lastAction' = SlotAfterRanking(o, ResponseData(o, srvRank,
                           Resp("ok", 200, None, TRUE, "ok")), lastAction, now)
    /\ srvRank' = ServiceAfter(o, srvRank)
    /\ isHealthy' = TRUE
    /\ UNCHANGED <<reqVars, lastHealthCheck, cache, buttons, env>>
    /\ UNCHANGED <<now, ticks, tickSteps, auditVars, roblox, botVars>>

\* the Discord users who run commands
Operators == {"alice", "bob"}

\* awaitMessageComponent({ ..., time: 60000 })
BUTTON_TIME == 60000

\* /rank <user> <rank> run by p: api.setRank(value, rankValue, metadata)
CmdRank(p) ==
    \E u \in env.users, r \in Ranks :
        RankingCall(By(Op("setRank", u, r, FALSE, None), p))

\* /undo run by p: api.getLastAction(), a warning when there is none, else
\* api.undo()
CmdUndo(p) ==
    /\ pc = "idle"
    /\ IF GetLastActionAt(lastAction, now).value = None
       THEN /\ lastAction' = GetLastActionAt(lastAction, now).slot
            /\ Finish(By(Op("undoCommand", 0, 0, FALSE, lastAction), p),
                      [kind |-> "return", value |-> None, error |-> None])
       ELSE UndoCall(By(Op("undo", 0, 0, FALSE, None), p))
    /\ UNCHANGED <<isHealthy, lastHealthCheck, cache, clientRest>>

\* a button that takes the click of any user
ClickUndo_AnyUser(p) ==
    /\ pc = "idle"
    /\ \E b \in buttons :
          /\ now - b.at <= BUTTON_TIME
          /\ buttons' = buttons \ {b}
    /\ UndoCall(By(Op("undo", 0, 0, FALSE, None), p))
    /\ UNCHANGED <<isHealthy, lastHealthCheck, cache, now, ticks, tickSteps,
                   auditVars, roblox, botVars, srvRank, env>>

\* p clicks the Undo button under the reply to a command p ran, within the
\* minute the bot waits for it: handleUndoButton calls api.undo()
ClickUndo(p) ==
    /\ pc = "idle"
    /\ \E b \in buttons :
          /\ b.by = p
          /\ now - b.at <= BUTTON_TIME
          /\ buttons' = buttons \ {b}
    /\ UndoCall(By(Op("undo", 0, 0, FALSE, None), p))
    /\ UNCHANGED <<isHealthy, lastHealthCheck, cache, now, ticks, tickSteps,
                   auditVars, roblox, botVars, srvRank, env>>

GetLastAction ==
    /\ pc = "idle"
    /\ lastAction' = GetLastActionAt(lastAction, now).slot
    /\ Finish(Op("getLastAction", 0, 0, FALSE, None),
              [kind |-> "return", value |-> GetLastActionAt(lastAction, now).value,
               error |-> None])
    /\ UNCHANGED <<isHealthy, lastHealthCheck, cache, clientRest>>

InvalidateCache ==
    /\ pc = "idle"
    /\ cache' = EmptyCache
    /\ Finish(Op("invalidateCache", 0, 0, FALSE, None),
              [kind |-> "return", value |-> None, error |-> None])
    /\ UNCHANGED <<isHealthy, lastHealthCheck, lastAction, clientRest>>


----------------------------------------------------------------------------
(* Source addresses *)

Octets == {"203", "0", "113", "55"}
Groups == {"2001", "db8"}

\* a.b.c.d
IPv4Form(a, b, c, d) == <<a, ".", b, ".", c, ".", d>>

\* g1:g2:g3:g4:g5:g6:g7:g8
IPv6Form(g) ==
    <<g[1], ":", g[2], ":", g[3], ":", g[4], ":",
      g[5], ":", g[6], ":", g[7], ":", g[8]>>

\* ::ffff:a.b.c.d
MappedForm(a, b, c, d) == <<":", ":", "ffff", ":">> \o IPv4Form(a, b, c, d)

IPv4Addrs == { IPv4Form(a, b, c, d) : a \in Octets, b \in Octets,
                                      c \in Octets, d \in Octets }
IPv6Addrs == { IPv6Form(g) : g \in [1..8 -> Groups] }
MappedAddrs == { MappedForm(a, b, c, d) : a \in Octets, b \in Octets,
                                          c \in Octets, d \in Octets }

\* '::1', '2001:db8::1', 'fe80::1:2', 'localhost', '10.0.0', '1.2.3.4.5',
\* '2001:db8:1:2:3:4:5:6', ''
OtherAddrs ==
    { <<":", ":", "1">>,
      <<"2001", ":", "db8", ":", ":", "1">>,
      <<"fe80", ":", ":", "1", ":", "2">>,
      <<"localhost">>,
      <<"10", ".", "0", ".", "0">>,
      <<"1", ".", "2", ".", "3", ".", "4", ".", "5">>,
      IPv6Form(<<"2001", "db8", "1", "2", "3", "4", "5", "6">>),
      << >> }

\* req.ip as add receives it: undefined or a string
IpInputs ==
    {None} \cup { Some(a) : a \in IPv4Addrs \cup IPv6Addrs
                                \cup MappedAddrs \cup OtherAddrs }

\* the addresses of the audit-log specification
AuditIps == { Some(IPv4Form("203", "0", "113", "55")) }

----------------------------------------------------------------------------
(* Specifications of the audit log *)

StartTime == 86399999      \* the clock at construction, just before midnight

\* the client after its constructor, facing the responses e and a service
\* whose ranks are one of srvs
ClientNew(e, srvs) ==
    /\ pc = "idle"
    /\ op = Op("none", 0, 0, FALSE, None)
    /\ retries = 0
    /\ attempt = 0
    /\ lastError = None
    /\ nFetch = 0
    /\ nProcessed = 0
    /\ cacheAtCall = EmptyCache
    /\ nSleep = 0
    /\ delay = 0
    /\ lastResp = None
    /\ same = None
    /\ ret = Pending
    /\ isHealthy = TRUE
    /\ lastHealthCheck = 0
    /\ cache = EmptyCache
    /\ lastAction = None
    /\ srvRank \in srvs
    /\ buttons = {}
    /\ env = e

\* the audit log after its constructor
AuditNew ==
    /\ logs = << >>
    /\ nAdds = 0
    /\ nextSweep = StartTime + CLEANUP_INTERVAL
    /\ lastCall = [op |-> "new", arg |-> None, ret |-> None, removed |-> 0,
                   fault |-> "none", threw |-> FALSE]

NoResponses ==
    [statuses |-> {}, codes |-> {}, badjson |-> {}, failures |-> {},
     health |-> {}, jitters |-> {}, users |-> {}]

\* the audit log idle, for the specifications of the client
\* AUDIT_LOG_PATH, or logs/audit.log under the working directory
LogPaths ==
    { <<"logs/", "audit", ".log">>,
      <<"logs/", "audit", ".jsonl">>,
      <<"data", ".log", "s/", "audit", ".log">> }

\* AUDIT_LOG_FILE unset: no file is written
SinkOff ==
    [persistentLogging |-> FALSE, logFilePath |-> <<"logs/", "audit", ".log">>,
     maxFileSize |-> 10, file |-> None, rotated |-> {}, faults |-> {"none"}]

AuditIdle ==
    /\ AuditNew
    /\ sink = SinkOff
    /\ maxEntries = MaxCap
    /\ ipPool = {}

InitAudit ==
    /\ now = StartTime
    /\ game = GameNew
    /\ roblox = RobloxNew
    /\ cooldowns = CooldownsNew
    /\ session = SessionNew
    /\ ticks = 0
    /\ tickSteps = {1, 3600000}
    /\ ClientNew(NoResponses, {[u \in Users |-> 1]})
    /\ AuditNew
    /\ sink = SinkOff
    /\ maxEntries \in 1..MaxCap
    /\ ipPool = AuditIps

NextAudit == AddStep \/ Cleanup \/ Tick

\* add and cleanup interleaved with the passing of time
SpecAudit == InitAudit /\ [][NextAudit]_vars

NextAdds == AddStep \/ Tick

\* add calls alone, with no sweep between them
SpecAdds == InitAudit /\ [][NextAdds]_vars

InitMask ==
    /\ now = StartTime
    /\ game = GameNew
    /\ roblox = RobloxNew
    /\ cooldowns = CooldownsNew
    /\ session = SessionNew
    /\ ticks = 0
    /\ tickSteps = {}
    /\ ClientNew(NoResponses, {[u \in Users |-> 1]})
    /\ AuditNew
    /\ sink = SinkOff
    /\ maxEntries = MaxCap
    /\ \E a \in IpInputs : ipPool = {a}

\* the first add of a process, for every source address
MaskStep == nAdds = 0 /\ AddStep

SpecMask == InitMask /\ [][MaskStep]_vars

\* rotated files left by earlier runs, some of them of one modification time
OldRotated(n) ==
    { [stamp |-> ToISOString(StartTime - 1000 * k),
       mtime |-> StartTime - 1000 * (k \div 2)] : k \in 1..n }

\* the log file found at start: none, or one near or past the threshold
OldFiles(maxMB) ==
    {None} \cup
    { Some([size |-> maxMB * BYTES_PER_MB + d, mtime |-> StartTime - 500]) :
        d \in {-1, 0} }

\* the constructor with AUDIT_LOG_FILE=true; persistentLogging is false
\* again when mkdirSync threw in initPersistentLogging
InitSink ==
    /\ now = StartTime
    /\ game = GameNew
    /\ roblox = RobloxNew
    /\ cooldowns = CooldownsNew
    /\ session = SessionNew
    /\ ticks = 0
    /\ tickSteps = {1}
    /\ ClientNew(NoResponses, {[u \in Users |-> 1]})
    /\ AuditNew
    /\ maxEntries = MaxCap
    /\ ipPool = {None}
    /\ \E maxMB \in {1, 10}, n \in {KEEP_ROTATED - 1, KEEP_ROTATED + 1} :
         \E f \in OldFiles(maxMB), fault \in SinkFaults, path \in LogPaths :
            /\ FirstDotLog(path) # Len(path) => fault = "append"
            /\ sink \in { [persistentLogging |-> TRUE, logFilePath |-> path,
                           maxFileSize |-> maxMB, file |-> f,
                           rotated |-> OldRotated(n),
                           faults |-> {"none", fault}],
                          [SinkOff EXCEPT !.file = f] }

\* add calls that write to the log file, one of its file system calls
\* failing now and then
SpecSink == InitSink /\ [][NextAdds]_vars

InitRoles ==
    /\ now = StartTime
    /\ game = GameNew
    /\ roblox = RobloxNew
    /\ cooldowns = CooldownsNew
    /\ session = SessionNew
    /\ ticks = 0
    /\ tickSteps = {}
    /\ ClientNew(NoResponses, {[u \in Users |-> 1]})
    /\ AuditIdle

NextRoles ==
    \/ /\ roblox.groupRoles = None
       /\ \E roles \in RoleLists, botRank \in {2, 255} : initialize(roles, botRank)
    \/ \E rank \in 0..3 : getRoleByRank(rank)
    \/ \E name \in NamesOver(LookupLetters) : getRoleByName(name)

\* the role directory built once and then looked up
SpecRoles == InitRoles /\ [][NextRoles]_vars

\* what noblox.getRoles answers to the refreshes: no role, one role, or
\* two roles of any names and ranks
RefreshAnswers ==
    UNION { { [i \in 1..n |-> [id |-> i, name |-> <<names[i]>>, rank |-> ranks[i]]] :
                names \in [1..n -> {"a", "A"}],
                ranks \in [1..n -> 1..2] } : n \in 0..2 }

InitRefresh == InitRoles

NextRefresh ==
    \/ initializeCalled
    \/ \E roles \in RefreshAnswers : initializeRoles(roles)
    \/ \E botRank \in {2, 255} : initializeRank(botRank)
    \/ \E rank \in 1..2 : getRoleByRank(rank)
    \/ \E name \in {<<"a">>, <<"A">>} : getRoleByName(name)
    \/ getGroupRoles
    \/ getSortedRoles
    \/ getBotRankCalled

\* initialize() called at startup and again as a refresh, each call running
\* from await to await, with lookups in between
SpecRefresh == InitRefresh /\ [][NextRefresh]_vars

\* a group with roles at the ranks 0, 1, 10, 50 and 100, answered in
\* ascending order or in another one
ExampleLists ==
    { [i \in 1..5 |-> [id |-> i, name |-> <<"a">>, rank |-> ranks[i]]] :
        ranks \in {<<0, 1, 10, 50, 100>>, <<50, 100, 0, 10, 1>>} }

\* the service before initialize(), with its configured limits and the
\* members of the group at any ranks
InitPolicy ==
    /\ now = StartTime
    /\ game = GameNew
    /\ \E lim \in {DefaultLimits, [minRank |-> 1, maxRank |-> 1],
                     [minRank |-> 2, maxRank |-> 255]} :
         roblox = [RobloxNew EXCEPT !.limits = lim]
    /\ cooldowns = CooldownsNew
    /\ session = SessionNew
    /\ ticks = 0
    /\ tickSteps = {}
    /\ ClientNew(NoResponses, {[u \in Users |-> r] : r \in {0, 1, 2, 10}})
    /\ AuditIdle

NextPolicy ==
    \/ /\ roblox.groupRoles = None
       /\ \/ \E roles \in RoleLists, botRank \in {2, 3} :
                initialize(roles, botRank)
          \/ \E roles \in ExampleLists : initialize(roles, 150)
    \/ \E user \in Users, n \in 0..3 : PolicyRequest("setRank", user, n)
    \/ \E user \in Users : PolicyRequest("promote", user, 0)
    \/ \E user \in Users : PolicyRequest("demote", user, 0)

\* requests to set, promote and demote, in any order
SpecPolicy == InitPolicy /\ [][NextPolicy]_vars

\* the service with its audit log, before initialize()
InitAudited ==
    /\ now = StartTime
    /\ game = GameNew
    /\ roblox = [RobloxNew EXCEPT !.limits = [minRank |-> 1, maxRank |-> 10]]
    /\ cooldowns = CooldownsNew
    /\ session = SessionNew
    /\ ticks = 0
    /\ tickSteps = {3600000}
    /\ ClientNew(NoResponses, {[u \in Users |-> 10]})
    /\ AuditNew
    /\ sink = SinkOff
    /\ maxEntries = MaxCap
    /\ ipPool = {None}

NextAudited ==
    \/ /\ roblox.groupRoles = None
       /\ \E roles \in ExampleLists : initialize(roles, 150)
    \/ \E n \in {7, 10, 50} : AuditedRequest("setRank", 1, n)
    \/ AuditedRequest("promote", 1, 0)
    \/ AuditedRequest("demote", 1, 0)
    \/ Cleanup
    \/ Tick

\* requests recorded in the audit log, with the sweep and the clock
SpecAudited == InitAudited /\ [][NextAudited]_vars


----------------------------------------------------------------------------
(* Specifications of the client *)

\* every kind of response: all whitelisted statuses and three others, with
\* and without an errorCode, unparseable bodies, timeouts, refused connections
AllResponses ==
    [statuses |-> RETRYABLE_CODES \cup {400, 403, 404},
     codes |-> {None, Some("E_RATE_LIMITED"), Some("E_TIMEOUT")},
     badjson |-> {200, 404, 429, 502},
     failures |-> {"abort", "neterr"},
     health |-> {"ok", "degraded"},
     jitters |-> Jitters,
     users |-> Users]

\* a sample: one whitelisted status, one other, timeouts
FewResponses ==
    [statuses |-> {403, 503},
     codes |-> {None},
     badjson |-> {},
     failures |-> {"abort"},
     health |-> {"ok"},
     jitters |-> {0},
     users |-> Users]

InitRetry ==
    /\ now = StartTime
    /\ game = GameNew
    /\ roblox = RobloxNew
    /\ cooldowns = CooldownsNew
    /\ session = SessionNew
    /\ ticks = 0
    /\ tickSteps = {}
    /\ AuditIdle
    /\ ClientNew(AllResponses, {[u \in Users |-> 1]})

NextRetry ==
    CallRequest \/ CallHealth \/ CallGetRoles \/ SleepDone \/ FetchDone

\* request() by itself, with any number of retries, and under health() and
\* getRoles()
SpecRetry == InitRetry /\ [][NextRetry]_vars

InitUndo ==
    /\ now = StartTime
    /\ game = GameNew
    /\ roblox = RobloxNew
    /\ cooldowns = CooldownsNew
    /\ session = SessionNew
    /\ ticks = 0
    /\ tickSteps = {300001}
    /\ AuditIdle
    /\ ClientNew(FewResponses, [Users -> Ranks])

NextUndo ==
    \/ CallSetRank \/ CallPromote \/ CallDemote \/ CallUndo \/ GetLastAction
    \/ SleepDone \/ FetchDone \/ Tick

\* the ranking calls and the undo slot
SpecUndo == InitUndo /\ [][NextUndo]_vars

\* a sample for the cached fetches: one whitelisted status, one user
CacheResponses ==
    [statuses |-> {503},
     codes |-> {None},
     badjson |-> {},
     failures |-> {},
     health |-> {"ok"},
     jitters |-> {0},
     users |-> {1}]

InitCache ==
    /\ now = StartTime
    /\ game = GameNew
    /\ roblox = RobloxNew
    /\ cooldowns = CooldownsNew
    /\ session = SessionNew
    /\ ticks = 0
    /\ tickSteps = {1, 300000}
    /\ AuditIdle
    /\ ClientNew(CacheResponses, {[u \in Users |-> 1]})

NextCache ==
    \/ CallGetRoles \/ CallSetRank \/ InvalidateCache
    \/ SleepDone \/ FetchDone \/ Tick

\* the cached fetches next to a ranking call
SpecCache == InitCache /\ [][NextCache]_vars


\* a service that answers every request
OkResponses ==
    [statuses |-> {},
     codes |-> {},
     badjson |-> {},
     failures |-> {},
     health |-> {"ok"},
     jitters |-> {0},
     users |-> {1}]

InitExpiry ==
    /\ now = StartTime
    /\ game = GameNew
    /\ roblox = RobloxNew
    /\ cooldowns = CooldownsNew
    /\ session = SessionNew
    /\ ticks = 0
    /\ tickSteps = {1, UNDO_EXPIRY}
    /\ AuditIdle
    /\ ClientNew(OkResponses, {[u \in Users |-> 1]})

NextExpiry ==
    CallSetRank \/ CallUndo \/ GetLastAction \/ FetchDone \/ Tick

\* the undo slot as time passes: exactly five minutes old, and a
\* millisecond older
SpecExpiry == InitExpiry /\ [][NextExpiry]_vars

\* a service that is unavailable or does not answer in time, or answers
BusyResponses ==
    [statuses |-> {503},
     codes |-> {None},
     badjson |-> {},
     failures |-> {"abort"},
     health |-> {"ok"},
     jitters |-> Jitters,
     users |-> {1}]

InitBackoff ==
    /\ now = StartTime
    /\ game = GameNew
    /\ roblox = RobloxNew
    /\ cooldowns = CooldownsNew
    /\ session = SessionNew
    /\ ticks = 0
    /\ tickSteps = {}
    /\ AuditIdle
    /\ ClientNew(BusyResponses, {[u \in Users |-> 1]})

NextBackoff ==
    \/ \E R \in 0..MaxGivenRetries : CallRequestWith(R)
    \/ SleepDone
    \/ FetchDone

\* request() with up to MaxGivenRetries retries against a service that is
\* unavailable for some time
SpecBackoff == InitBackoff /\ [][NextBackoff]_vars

\* sets of source addresses that agree in the part that is kept: IPv4
\* addresses with the same first three octets, IPv6 addresses with the same
\* high 64 bits written in full, with '::', and as IPv4-mapped addresses,
\* and the loopback address by itself
AlikePools ==
    { { Some(IPv4Form("203", "0", "113", "55")),
        Some(IPv4Form("203", "0", "113", "0")) },
      { Some(IPv6Form(<<"2001", "db8", "1", "2", "3", "4", "5", "6">>)),
        Some(IPv6Form(<<"2001", "db8", "1", "2", "6", "5", "4", "3">>)) },
      { Some(<<"2001", ":", "db8", ":", ":", "1">>),
        Some(<<"2001", ":", "db8", ":", ":", "2">>) },
      { Some(MappedForm("203", "0", "113", "55")),
        Some(MappedForm("203", "0", "113", "0")) },
      { Some(<<":", ":", "1">>) } }

InitAlike ==
    /\ now = StartTime
    /\ game = GameNew
    /\ roblox = RobloxNew
    /\ cooldowns = CooldownsNew
    /\ session = SessionNew
    /\ ticks = 0
    /\ tickSteps = {}
    /\ ClientNew(NoResponses, {[u \in Users |-> 1]})
    /\ AuditNew
    /\ sink = SinkOff
    /\ maxEntries = MaxCap
    /\ ipPool \in AlikePools

\* requests from addresses that differ in the masked part only
SpecAlike == InitAlike /\ [][AddStep]_vars

\* a rank a caller of add passes, or leaves out: the ends of 0..255 and 1
RanksGiven == {None, Some(0), Some(1), Some(255)}

\* entries with any of the three ranks given or left out
RankedEntries ==
    { [action |-> "setRank", userId |-> 1, username |-> None,
       targetRank |-> t, oldRank |-> o, newRank |-> n,
       success |-> TRUE, error |-> None, ip |-> None] :
      t \in RanksGiven, o \in RanksGiven, n \in RanksGiven }

InitRanked ==
    /\ now = StartTime
    /\ game = GameNew
    /\ roblox = RobloxNew
    /\ cooldowns = CooldownsNew
    /\ session = SessionNew
    /\ ticks = 0
    /\ tickSteps = {}
    /\ ClientNew(NoResponses, {[u \in Users |-> 1]})
    /\ AuditNew
    /\ sink = SinkOff
    /\ maxEntries = MaxCap
    /\ ipPool = {None}

RankedStep ==
    nAdds = 0 /\ \E entry \in RankedEntries, r \in RandSuffixes : Add(entry, r)

\* the first add of a process, for every combination of ranks
SpecRanked == InitRanked /\ [][RankedStep]_vars

InitQueue ==
    /\ now = StartTime
    /\ game = GameNew
    /\ roblox = RobloxNew
    /\ cooldowns = CooldownsNew
    /\ session = SessionNew
    /\ ticks = 0
    /\ tickSteps = {}
    /\ ClientNew(NoResponses, {[u \in Users |-> 1]})
    /\ AuditIdle

NextQueue ==
    \/ QueueAsync \/ ClearQueue \/ processQueue \/ RequestDone \/ PauseDone

\* the game queues requests while its processor thread drains the queue
SpecQueue == InitQueue /\ [][NextQueue]_vars

InitOverlap ==
    /\ now = StartTime
    /\ game = GameNew
    /\ roblox = RobloxNew
    /\ cooldowns = CooldownsNew
    /\ session = SessionNew
    /\ ticks = 0
    /\ tickSteps = {1}
    /\ AuditIdle
    /\ ClientNew(OkResponses, [Users -> {1, 10}])

NextOverlap ==
    \/ CallSetRank
    \/ CallUndo
    \/ FetchDone
    \/ \E u \in env.users, r \in Ranks :
          OtherCallReturns(Op("setRank", u, r, FALSE, None))
    \/ Tick

\* ranking calls and undo() on one client, with a second ranking call that
\* completes while the first is awaiting its answer
SpecOverlap == InitOverlap /\ [][NextOverlap]_vars

InitOperators ==
    /\ now = StartTime
    /\ game = GameNew
    /\ roblox = RobloxNew
    /\ cooldowns = CooldownsNew
    /\ session = SessionNew
    /\ ticks = 0
    /\ tickSteps = {1, BUTTON_TIME}
    /\ AuditIdle
    /\ ClientNew(OkResponses, {[u \in Users |-> 1]})

NextOperators ==
    \/ \E p \in Operators : CmdRank(p) \/ CmdUndo(p) \/ ClickUndo(p)
    \/ FetchDone
    \/ Tick

\* the commands of several operators, one after the other, on one client
SpecOperators == InitOperators /\ [][NextOperators]_vars

\* a service that answers, or refuses with 403
RefusingResponses ==
    [statuses |-> {403},
     codes |-> {None},
     badjson |-> {},
     failures |-> {},
     health |-> {"ok"},
     jitters |-> {0},
     users |-> {1}]

InitTtl ==
    /\ now = StartTime
    /\ game = GameNew
    /\ roblox = RobloxNew
    /\ cooldowns = CooldownsNew
    /\ session = SessionNew
    /\ ticks = 0
    /\ tickSteps = {1, HEALTH_TTL, ROLES_TTL, GROUP_TTL}
    /\ AuditIdle
    /\ ClientNew(RefusingResponses, {[u \in Users |-> 1]})

NextTtl ==
    \/ CallGetRoles \/ CallGetGroup \/ CallGetPermissions \/ CallHealth
    \/ FetchDone \/ Tick

\* the four cached calls as their entries age
SpecTtl == InitTtl /\ [][NextTtl]_vars

MaxBatch == 2      \* users in one /batch rank command

\* the users validateUserList lets through: ids and usernames of members,
\* and the username of nobody
BatchUsers ==
    { [type |-> "id", id |-> 1, name |-> ""],
      [type |-> "id", id |-> 2, name |-> ""],
      [type |-> "username", id |-> 0, name |-> "alice"],
      [type |-> "username", id |-> 0, name |-> "nobody"] }

\* the rank option of /batch rank: digits, or the name of a role
BatchRanks ==
    { [numeric |-> TRUE, n |-> 10, name |-> ""],
      [numeric |-> TRUE, n |-> 7, name |-> ""],
      [numeric |-> FALSE, n |-> 0, name |-> "Moderator"] }

\* a caller's batch of five entries, one of them with a malformed id
FiveWithOneMalformed ==
    { [i \in 1..5 |->
        [userId   |-> Some(IF i = k THEN 0 ELSE 1 + (i % 2)),
         username |-> None,
         rank     |-> Some(IF i < 3 THEN 10 ELSE 50),
         rankName |-> None]] : k \in 1..5 }

InitBulk ==
    /\ now = StartTime
    /\ game = GameNew
    /\ roblox = RobloxNew
    /\ cooldowns = CooldownsNew
    /\ session = SessionNew
    /\ ticks = 0
    /\ tickSteps = {}
    /\ AuditIdle
    /\ ClientNew([OkResponses EXCEPT !.statuses = {403}, !.codes = {None}],
                 [Users -> {1, 10}])

NextBulk ==
    \/ \E n \in 1..MaxBatch :
          \E users \in [1..n -> BatchUsers], rank \in BatchRanks :
              CmdBatchRank(users, rank)
    \/ \E items \in FiveWithOneMalformed : CallBulkRank(items)
    \/ FetchDone

\* batches of rank changes, sent by /batch rank and by other callers
SpecBulk == InitBulk /\ [][NextBulk]_vars

InitSession ==
    /\ now = StartTime
    /\ game = GameNew
    /\ roblox = RobloxNew
    /\ cooldowns = CooldownsNew
    /\ session \in {[SessionNew EXCEPT !.state = st, !.before = st,
                                       !.status = st,
                                       !.nextProbe = StartTime + @] :
                       st \in {"healthy", "degraded"}}
    /\ ticks = 0
    /\ tickSteps = {30000, SESSION_HEALTH_INTERVAL}
    /\ AuditIdle
    /\ ClientNew(NoResponses, {[u \in Users |-> 1]})

NextSession ==
    \/ \E result \in ProbeResults : SessionProbe(result)
    \/ \E result \in ProbeResults : SessionCheck(result)
    \/ Tick

\* the session monitor on its timer, with checks on demand in between
SpecSession == InitSession /\ [][NextSession]_vars

\* the values of COMMAND_COOLDOWN the bot is started with: unset, or a line
\* of the .env file
CooldownSettings ==
    {None, Some(<<"0">>), Some(<<"1">>), Some(<<"3">>), Some(<<"1", "0">>),
     Some(<<"-", "1">>), Some(<< >>), Some(<<"o", "f", "f">>),
     Some(<<" ", "2", "s">>)}

Commands == {"rank", "promote"}

InitCooldown ==
    /\ now = StartTime
    /\ game = GameNew
    /\ roblox = RobloxNew
    /\ cooldowns \in {[CooldownsNew EXCEPT !.COMMAND_COOLDOWN = v] :
                         v \in CooldownSettings}
    /\ session = SessionNew
    /\ ticks = 0
    /\ tickSteps = {1, 1000}
    /\ AuditIdle
    /\ ClientNew(NoResponses, {[u \in Users |-> 1]})

NextCooldown ==
    \/ \E c \in Commands, u \in Users : applyCooldown(c, u)
    \/ Tick

\* commands of the bot's users, each passing through applyCooldown
SpecCooldown == InitCooldown /\ [][NextCooldown]_vars

\* the entries the queries are made over: the shapes of EntryShapes and a
\* failed setRank of user 2
QueriedEntries ==
    { [action |-> e[1], userId |-> e[2], username |-> None,
       targetRank |-> None, oldRank |-> None, newRank |-> None,
       success |-> e[3], error |-> None, ip |-> None] :
      e \in {<<"setRank", 1, TRUE>>, <<"promote", 2, FALSE>>,
             <<"setRank", 2, FALSE>>} }

\* the options of getAll: each absent, falsy or set
QueryOptions ==
    [action : {None, Some(""), Some("setRank"), Some("promote")},
     success : {None, Some(TRUE), Some(FALSE)},
     userId : {None, Some(0), Some(1), Some(2)},
     limit : {None, Some(0 - 1), Some(0), Some(1), Some(2)},
     offset : {None, Some(0 - 1), Some(0), Some(1), Some(2)}]

InitQuery ==
    /\ now = StartTime
    /\ game = GameNew
    /\ roblox = RobloxNew
    /\ cooldowns = CooldownsNew
    /\ session = SessionNew
    /\ ticks = 0
    /\ tickSteps = {}
    /\ ClientNew(NoResponses, {[u \in Users |-> 1]})
    /\ AuditNew
    /\ sink = SinkOff
    /\ maxEntries = MaxCap + 1
    /\ ipPool = {None}

\* a query leaves the buffer as it is: a query made after another query
\* reaches the states the same query reaches when made in its place
NextQuery ==
    \/ \E entry \in QueriedEntries : Add(entry, "a")
    \/ /\ lastCall.op \notin {"getAll", "getStats"}
       /\ \E options \in QueryOptions : GetAll(options)
    \/ /\ lastCall.op \notin {"getAll", "getStats"}
       /\ GetStats

\* queries over the buffer as it fills
SpecQuery == InitQuery /\ [][NextQuery]_vars

----------------------------------------------------------------------------
(* Claims about the client *)

\* a call that went through request() has ended
CallEnded == pc = "idle" /\ nFetch > 0

\* the error that the attempt answered by resp stands for
ErrorOfAttempt(resp) ==
    IF resp.kind = "abort" THEN [status |-> 408, code |-> "E_TIMEOUT"]
    ELSE IF resp.kind = "http"
    THEN [status |-> resp.status,
          code |-> IF resp.errorCode = None THEN "E_API_ERROR"
                   ELSE resp.errorCode[1]]
    ELSE [status |-> 0, code |-> "E_CONNECTION"]

\* C1: when every attempt of request() receives a 503 response, the request
\* is retried until the retries are used up and then fails with a
\* connection-class error, one for which isConnectionError() holds.
C1_503EndsInConnectionError ==
    (CallEnded /\ same = Some(<<"http", 503>>)) =>
        /\ nFetch = retries + 1
        /\ ret.kind = "throw"
        /\ isConnectionError(ret.error[1])

\* C1 as amended: when every attempt receives a 503 response with a JSON
\* body, the request is retried until the retries are used up and then fails
\* with an APIError of status 503 whose code is the errorCode of the last
\* response, or E_API_ERROR when it has none; isConnectionError() holds for
\* it only when the service sent E_CONNECTION or E_TIMEOUT as that code.
C1_503EndsInStatus503 ==
    (CallEnded /\ same = Some(<<"http", 503>>)) =>
        /\ nFetch = retries + 1
        /\ nSleep = retries
        /\ ret.kind = "throw"
        /\ ret.error[1].status = 503
        /\ ret.error[1].code = IF lastResp[1].errorCode = None THEN "E_API_ERROR"
                               ELSE lastResp[1].errorCode[1]
        /\ isConnectionError(ret.error[1])
             <=> lastResp[1].errorCode \in {Some("E_CONNECTION"), Some("E_TIMEOUT")}

\* C1 witness: four 503 responses without an errorCode, and the call threw
C1_Witness ==
    /\ CallEnded
    /\ same = Some(<<"http", 503>>)
    /\ retries = MAX_RETRIES
    /\ nFetch = MAX_RETRIES + 1
    /\ ret.kind = "throw"
    /\ ret.error[1] = [status |-> 503, code |-> "E_API_ERROR"]

\* a response with an error status outside the retry whitelist
NotWhitelisted(resp) ==
    resp.kind \in {"http", "badjson"} /\ resp.status \in {400, 403, 404}

\* C2: a response whose status is outside the retry whitelist is never
\* retried: the call ends with it, throwing an APIError that carries the
\* status, and when it answers the first attempt there was exactly one
\* attempt and no sleep.
C2_OtherStatusNeverRetried ==
    (lastResp # None /\ NotWhitelisted(lastResp[1])) =>
        /\ pc = "idle"
        /\ ret.kind = "throw"
        /\ ret.error[1].status = lastResp[1].status
        /\ same = Some(<<lastResp[1].kind, lastResp[1].status>>)
              => nFetch = 1 /\ nSleep = 0

\* C3: one call of request() with R retries makes at most R + 1 attempts
\* (4 by default, 2 for health()), sleeps before every retry and never before
\* the first attempt, goes on only after a failed attempt, and ends by
\* returning the first successful response or throwing the error of the
\* last attempt.
C3_BoundedAttempts ==
    /\ nFetch <= retries + 1
    /\ pc = "fetch" => nSleep = nFetch
    /\ pc = "sleep" => nFetch >= 1 /\ nSleep = nFetch - 1
    /\ (pc # "idle" /\ nFetch > 0) => lastResp[1].kind # "ok"
    /\ (pc # "idle" /\ op.name = "health") => retries = 1
    /\ (pc # "idle" /\ op.name = "getRoles") => retries = 3
    /\ CallEnded =>
        /\ nSleep = nFetch - 1
        /\ op.name = "health" => nFetch <= 2
        /\ op.name = "getRoles" => nFetch <= 4
        /\ \/ ret.kind = "return" /\ lastResp[1].kind = "ok"
           \/ /\ ret.kind = "throw"
              /\ lastResp[1].kind # "ok"
              /\ ret.error[1] = ErrorOfAttempt(lastResp[1])

\* C3 witness: a call with three retries made four attempts of different
\* kinds and threw the timeout of the last one
C3_Witness ==
    /\ CallEnded
    /\ retries = 3
    /\ nFetch = 4
    /\ nSleep = 3
    /\ same = Some(<<"mixed", 0>>)
    /\ ret.kind = "throw"
    /\ ret.error[1] = [status |-> 408, code |-> "E_TIMEOUT"]

\* C6: isHealthy is false after every attempt that failed with a
\* connection-class error (a refused connection or a timeout) and true after
\* every successful response (health() then puts its own verdict in place).
C6_HealthFlagTracksConnection ==
    lastResp # None =>
        /\ lastResp[1].kind \in {"abort", "neterr"} => ~isHealthy
        /\ (lastResp[1].kind = "ok" /\ op.name # "health") => isHealthy

\* C4: undo() with a non-expired slot calls setRank and then clears the
\* slot whatever the outcome of that setRank.
C4_UndoAlwaysClears ==
    (CallEnded /\ op.name = "undo") => lastAction = None

\* C4 as amended: undo() with a non-expired slot calls setRank with the
\* stored userId and old rank; when that setRank returns, with changed true
\* or false, the slot is empty afterwards and the result reports the old
\* rank as the new one; when it throws, undo() throws too and the slot still
\* holds the action.
C4_UndoClearsOnReturn ==
    (op.name = "undo" /\ nFetch > 0) =>
        /\ op.user = op.action[1].userId
        /\ op.rank = op.action[1].oldRank
        /\ CallEnded /\ ret.kind = "return" =>
              /\ lastAction = None
              /\ ret.value[1].userId = op.action[1].userId
              /\ ret.value[1].newRank = op.action[1].oldRank
              /\ ret.value[1].revertedTo = op.action[1].oldRankName
        /\ CallEnded /\ ret.kind = "throw" => lastAction = op.action

\* C4 witness: an undo whose setRank threw, and the slot is still full
C4_Witness ==
    /\ CallEnded
    /\ op.name = "undo"
    /\ ret.kind = "throw"
    /\ lastAction # None
    /\ lastAction = op.action

\* C5: after a successful ranking call that changed a rank, the cached
\* roles are invalidated.
C5_MutationInvalidatesRoles ==
    (CallEnded /\ IsMutating(op) /\ ret.kind = "return" /\ ret.value[1].changed)
        => cache["roles"] = None

\* C5 as amended: a ranking call never touches the cache, and getRoles()
\* without forceRefresh returns the cached value, fetching nothing, as long
\* as the entry has not expired, also after a ranking call changed a rank.
C5_MutationKeepsCache ==
    /\ [][IsMutating(op') => cache' = cache]_vars
    /\ [][(/\ pc = "idle"
           /\ now' = now
           /\ op'.name = "getRoles"
           /\ ~op'.force) =>
              IF cache["roles"] # None /\ now <= cache["roles"][1].expiry
              THEN /\ pc' = "idle"
                   /\ ret' = Returned(cache["roles"][1].data)
                   /\ nFetch' = 0
                   /\ cache' = cache
              ELSE /\ pc' = "fetch"
                   /\ cache'["roles"] = None]_vars

\* C5 witness: getRoles() served member counts from the cache that a ranking
\* call has made stale
C5_Witness ==
    /\ pc = "idle"
    /\ op.name = "getRoles"
    /\ ~op.force
    /\ nFetch = 0
    /\ ret.kind = "return"
    /\ ret.value[1].roles # RolesData(srvRank)


\* the calls that record a LastAction
RankingNames == {"setRank", "promote", "demote"}

\* C11: the undo slot holds at most one LastAction; a setRank, promote or
\* demote that returns success with changed = true overwrites the slot with
\* the action of that call (its type, user, old and new rank, and the time),
\* and one that throws or returns changed = false leaves the slot as it was,
\* as does every step of the call before its end.
C11_SlotOverwritten ==
    /\ [](Len(lastAction) <= 1)
    /\ [][(pc = "fetch" /\ op.name \in RankingNames) =>
            IF /\ pc' = "idle"
               /\ ret'.kind = "return"
               /\ ret'.value[1].success
               /\ ret'.value[1].changed
            THEN lastAction' =
                    Some([type |-> IF op.name = "setRank" THEN "rank" ELSE op.name,
                          userId |-> op.user,
                          oldRank |-> ret'.value[1].oldRank,
                          oldRankName |-> ret'.value[1].oldRankName,
                          newRank |-> ret'.value[1].newRank,
                          newRankName |-> ret'.value[1].newRankName,
                          timestamp |-> now,
                          discordUserId |-> op.meta])
            ELSE lastAction' = lastAction]_vars
    /\ [][(pc = "sleep" /\ op.name \in RankingNames)
             => lastAction' = lastAction]_vars

\* C11 witness: a demote that changed a rank has replaced a slot written
\* earlier (the clock has moved since the start, and the slot is of now)
C11_Witness ==
    /\ pc = "idle"
    /\ op.name = "demote"
    /\ ret.kind = "return"
    /\ ret.value[1].changed
    /\ ticks > 0
    /\ Len(lastAction) = 1
    /\ lastAction[1].type = "demote"
    /\ lastAction[1].timestamp = now
    /\ lastAction[1].oldRank = 50


\* the slot is empty or older than five minutes
SlotExpired == lastAction = None \/ now - lastAction[1].timestamp > 300000

\* C12: undo() called when the slot is empty or more than 5 minutes after the
\* timestamp of the recorded change throws the E_NO_UNDO error (status 400)
\* and sends no request, and otherwise sends one; getLastAction() returns the
\* slot and keeps it while it is not expired, and otherwise empties it and
\* returns none.
C12_UndoExpiry ==
    /\ [][(pc = "idle" /\ now' = now /\ op'.name = "undo") =>
            IF SlotExpired
            THEN /\ pc' = "idle"
                 /\ ret' = [kind |-> "throw", value |-> None,
                            error |-> Some([status |-> 400, code |-> "E_NO_UNDO"])]
                 /\ nFetch' = 0
                 /\ lastAction' = None
                 /\ srvRank' = srvRank
            ELSE /\ pc' = "fetch"
                 /\ lastAction' = lastAction
                 /\ op'.user = lastAction[1].userId
                 /\ op'.rank = lastAction[1].oldRank]_vars
    /\ [][(pc = "idle" /\ now' = now /\ op'.name = "getLastAction") =>
            /\ pc' = "idle"
            /\ nFetch' = 0
            /\ ret'.kind = "return"
            /\ IF SlotExpired
               THEN ret'.value = None /\ lastAction' = None
               ELSE ret'.value = lastAction /\ lastAction' = lastAction]_vars

\* C12 witness: undo() found an action a millisecond past its five minutes,
\* threw E_NO_UNDO without a request and left the slot empty
C12_Witness ==
    /\ pc = "idle"
    /\ op.name = "undo"
    /\ op.action # None
    /\ now - op.action[1].timestamp = 300001
    /\ ret.kind = "throw"
    /\ ret.error[1].code = "E_NO_UNDO"
    /\ nFetch = 0
    /\ lastAction = None


CachedNames == {"getRoles", "getGroup", "getPermissions", "health"}

KeyOf(n) ==
    IF n = "getRoles" THEN "roles"
    ELSE IF n = "getGroup" THEN "group"
    ELSE IF n = "getPermissions" THEN "permissions"
    ELSE "health"

MillisOf(k) ==
    IF k = "roles" THEN 300000
    ELSE IF k = "group" THEN 600000
    ELSE IF k = "permissions" THEN 300000
    ELSE 30000

\* C15: getRoles, getGroup, getPermissions and health return the cached value,
\* without a request, only when not forced and while the time is not past
\* the entry's expiry; an expired entry is deleted and the call sends a
\* request; a forced call always sends a request; a request that returns
\* stores its result under the key with an expiry of now plus 5, 10, 5 and
\* 0.5 minutes, and one that fails leaves the cache as it is.
C15_CacheTtl ==
    /\ [][(pc = "idle" /\ now' = now /\ op'.name \in CachedNames) =>
            IF /\ ~op'.force
               /\ cache[KeyOf(op'.name)] # None
               /\ now <= cache[KeyOf(op'.name)][1].expiry
            THEN /\ pc' = "idle"
                 /\ nFetch' = 0
                 /\ ret' = [kind |-> "return", error |-> None,
                            value |-> Some(cache[KeyOf(op'.name)][1].data)]
                 /\ cache' = cache
            ELSE /\ pc' = "fetch"
                 /\ \A k \in CacheKeys \ {KeyOf(op'.name)} : cache'[k] = cache[k]
                 /\ cache'[KeyOf(op'.name)] =
                       IF op'.force THEN cache[KeyOf(op'.name)] ELSE None]_vars
    /\ [][(pc = "fetch" /\ op.name \in CachedNames /\ pc' = "idle") =>
            IF ret'.kind = "return"
            THEN /\ cache'[KeyOf(op.name)] =
                       Some([data |-> ret'.value[1],
                             expiry |-> now + MillisOf(KeyOf(op.name))])
                 /\ \A k \in CacheKeys \ {KeyOf(op.name)} : cache'[k] = cache[k]
            ELSE cache' = cache]_vars

\* C15 witness: the health entry served at the very moment of its expiry,
\* half a minute after it was cached, while a group entry is cached too
C15_Witness ==
    /\ pc = "idle"
    /\ op.name = "health"
    /\ ~op.force
    /\ nFetch = 0
    /\ ret.kind = "return"
    /\ cache["health"] # None
    /\ cache["health"][1].expiry = now
    /\ cache["group"] # None
    /\ cache["group"][1].expiry = now + 570000


\* C16: a 429 response is retried only while retries are left; the call that
\* ends with a 429 response has used them all up and throws an APIError of
\* status 429, for which isRateLimited() holds.
C16_429SurfacedAsRateLimit ==
    /\ nFetch <= retries + 1
    /\ (CallEnded /\ lastResp[1].kind \in {"http", "badjson"}
          /\ lastResp[1].status = 429) =>
            /\ nFetch = retries + 1
            /\ ret.kind = "throw"
            /\ ret.error[1].status = 429
            /\ isRateLimited(ret.error[1])


----------------------------------------------------------------------------
(* Claims about the audit log *)

\* the age of an entry at time t, from its stored timestamp
Age(log, t) == t - DateParse(log.timestamp)

\* C7: with capacity maxEntries = N the buffer never holds more than N
\* entries; after k adds (and no sweep) it holds min(k, N) entries, and each
\* add puts its entry at index 0 in front of the N - 1 newest entries that
\* were there, so the buffer is the min(k, N) most recent adds, newest first.
C7_CapacityNewestFirst ==
    /\ [](Len(logs) <= maxEntries /\ Len(logs) = Min(nAdds, maxEntries))
    /\ [][AddStep =>
            /\ logs'[1] = lastCall'.ret
            /\ logs'[1].action = lastCall'.arg.action
            /\ logs'[1].userId = lastCall'.arg.userId
            /\ logs'[1].success = lastCall'.arg.success
            /\ DateParse(logs'[1].timestamp) = now
            /\ Len(logs') = Min(Len(logs) + 1, maxEntries)
            /\ \A i \in 2..Len(logs') : logs'[i] = logs[i - 1]]_vars

\* C7 witness: more adds than the capacity, and the buffer is full
C7_Witness ==
    /\ lastCall.op = "add"
    /\ nAdds > maxEntries
    /\ Len(logs) = maxEntries
    /\ logs[1] = lastCall.ret

\* C8: a sweep removes every entry older than one hour, whatever the fill of
\* the buffer, and keeps the entries younger than one hour in their order.
C8_CleanupByAge ==
    [][Cleanup =>
        /\ SelectSeq(logs', LAMBDA log : Age(log, now) > MAX_AGE) = << >>
        /\ SelectSeq(logs', LAMBDA log : Age(log, now) < MAX_AGE)
             = SelectSeq(logs, LAMBDA log : Age(log, now) < MAX_AGE)
        /\ \A i \in 1..Len(logs') : \E j \in 1..Len(logs) : logs'[i] = logs[j]]_vars

\* C8 witness: a sweep has removed entries from a buffer that was not full
C8_Witness ==
    /\ lastCall.op = "cleanup"
    /\ lastCall.removed > 0
    /\ Len(logs) + lastCall.removed < maxEntries

\* C9: an IPv4-mapped address '::ffff:a.b.c.d' is stored as
\* '::ffff:a.b.c.xxx'.
C9_MappedMaskedAsIPv4 ==
    lastCall.op = "add" =>
        \A a \in Octets, b \in Octets, c \in Octets, d \in Octets :
            lastCall.arg.ip = Some(MappedForm(a, b, c, d))
                => logs[1].ip = Some(MappedForm(a, b, c, "xxx"))

\* C10: a dotted IPv4 address a.b.c.d is stored as a.b.c.xxx, a full IPv6
\* address as its first four groups followed by '::xxxx', and the ip field
\* of the entry that add creates is the masked value of the address given.
C10_MaskIPv4AndIPv6 ==
    lastCall.op = "add" =>
        /\ lastCall.ret.ip = maskIp(lastCall.arg.ip)
        /\ logs[1].ip = lastCall.ret.ip
        /\ \A a \in Octets, b \in Octets, c \in Octets, d \in Octets :
              lastCall.arg.ip = Some(IPv4Form(a, b, c, d))
                  => logs[1].ip = Some(<<a, ".", b, ".", c, ".", "xxx">>)
        /\ \A g \in [1..8 -> Groups] :
              lastCall.arg.ip = Some(IPv6Form(g))
                  => logs[1].ip = Some(<<g[1], ":", g[2], ":", g[3], ":", g[4],
                                         ":", ":", "xxxx">>)
        /\ lastCall.arg.ip = Some(<<"203", ".", "0", ".", "113", ".", "55">>)
              => logs[1].ip = Some(<<"203", ".", "0", ".", "113", ".", "xxx">>)
        /\ lastCall.arg.ip
              = Some(IPv6Form(<<"2001", "db8", "1", "2", "3", "4", "5", "6">>))
              => logs[1].ip = Some(<<"2001", ":", "db8", ":", "1", ":", "2",
                                     ":", ":", "xxxx">>)

\* C10 witness: the spec's IPv6 example has been added and masked
C10_Witness ==
    /\ lastCall.op = "add"
    /\ lastCall.arg.ip
         = Some(IPv6Form(<<"2001", "db8", "1", "2", "3", "4", "5", "6">>))
    /\ logs[1].ip = Some(<<"2001", ":", "db8", ":", "1", ":", "2",
                           ":", ":", "xxxx">>)



\* C17: add never throws and never skips the insert in memory because of the
\* log file: whichever file system call of the write fails, or when the
\* directory could not be made, the entry is first in the buffer and is
\* what add returns.
C17_AddSurvivesSink ==
    [][nAdds' = nAdds + 1 =>
          /\ ~lastCall'.threw
          /\ lastCall'.op = "add"
          /\ logs' = Unshift(logs, lastCall'.ret, maxEntries)
          /\ logs'[1] = lastCall'.ret
          /\ lastCall'.ret.action = lastCall'.arg.action]_vars

\* an add whose append to the log file failed
C17_Witness ==
    /\ lastCall.op = "add"
    /\ sink.persistentLogging
    /\ lastCall.fault = "append"
    /\ logs[1] = lastCall.ret

\* an add that wrote to the log file with no file system call failing
SinkWrote ==
    /\ nAdds' = nAdds + 1
    /\ sink.persistentLogging
    /\ lastCall'.fault = "none"

\* what an add that wrote leaves: past the threshold the old file under a
\* timestamped name and the entry alone in a fresh file, with at most five
\* rotated files kept, the newest ones; below it the entry after the others
SinkRotated ==
    IF sink.file # None /\ sink.file[1].size >= sink.maxFileSize * BYTES_PER_MB
    THEN /\ sink'.file = Some([size  |-> LineBytes(lastCall'.ret),
                               mtime |-> now])
         /\ sink'.rotated \subseteq Renamed(sink, now)
         /\ Cardinality(sink'.rotated) <= KEEP_ROTATED
         /\ Cardinality(sink'.rotated) =
                Min(KEEP_ROTATED, Cardinality(Renamed(sink, now)))
         /\ \A k \in sink'.rotated, d \in Renamed(sink, now) \ sink'.rotated :
                k.mtime >= d.mtime
    ELSE /\ sink'.rotated = sink.rotated
         /\ sink'.file = Appended(sink, LineBytes(lastCall'.ret), now).file

\* C18: with the log file enabled every add checks the size of the file
\* before it appends; once the size has reached the threshold the file is
\* renamed with a timestamp suffix and the entry goes to a fresh file, and
\* after a rotation at most 5 rotated files remain, the most recently
\* modified ones.
C18_RotatesAtThreshold ==
    [][SinkWrote => SinkRotated]_vars

\* the spellings of a name in any letter case
LetterCases(name) ==
    { v \in [1..Len(name) -> LookupLetters \cup {"i"}] :
        \A i \in 1..Len(name) :
            v[i] \in {name[i], toLowerCaseChar(name[i]), toUpperCaseChar(name[i])} }

\* a snapshot of unique ranks and of names unique up to case
UniqueSnapshot(roles) ==
    \A i, j \in 1..Len(roles) :
        i # j => /\ roles[i].rank # roles[j].rank
                 /\ roles[j].name \notin LetterCases(roles[i].name)
                 /\ roles[i].name \notin LetterCases(roles[j].name)

\* what a lookup has to find in the snapshot
RoleOfCall(roles, call) ==
    { roles[i] : i \in
        { i \in 1..Len(roles) :
            \/ call.fn = "getRoleByRank" /\ roles[i].rank = call.rank
            \/ call.fn = "getRoleByName" /\ call.name \in LetterCases(roles[i].name) } }

\* C19: in a snapshot of unique ranks and of names unique up to case, the
\* lookup of a rank that is present and the lookup of that role's name in
\* any letter case return the identical role record, and a rank or a name
\* that is absent yields undefined.
C19_LookupsAgree ==
    (roblox.groupRoles # None /\ roblox.call.fn \in {"getRoleByRank", "getRoleByName"}
        /\ UniqueSnapshot(roblox.groupRoles[1])) =>
        /\ \A role \in RoleOfCall(roblox.groupRoles[1], roblox.call) :
              /\ roblox.found = Some(role)
              /\ roblox.found = MapGet(roblox.rolesByRank, role.rank)
        /\ RoleOfCall(roblox.groupRoles[1], roblox.call) = {} => roblox.found = None

\* C20: the service never issues a mutating call for a target rank at or
\* above the bot's own rank or outside [minRank, maxRank]: a setRank to
\* such a rank of the directory is refused with PermissionError and moves
\* nobody, and no request of any kind moves a user to a rank that is not
\* strictly below the bot's rank and inside the limits.
C20_NeverAtOrAboveBot ==
    [][/\ \A u \in Users :
            srvRank'[u] # srvRank[u] =>
                /\ srvRank'[u] < roblox.botRankInGroup[1]
                /\ srvRank'[u] >= roblox.limits.minRank
                /\ srvRank'[u] <= roblox.limits.maxRank
       /\ (/\ roblox'.request # roblox.request
           /\ roblox'.request.fn = "setRank"
           /\ \E i \in 1..Len(roblox.groupRoles[1]) :
                 roblox.groupRoles[1][i].rank = roblox'.request.target[1]
           /\ \/ roblox'.request.target[1] >= roblox.botRankInGroup[1]
              \/ roblox'.request.target[1] < roblox.limits.minRank
              \/ roblox'.request.target[1] > roblox.limits.maxRank)
          => /\ roblox'.request.outcome = "PermissionError"
             /\ srvRank' = srvRank]_vars

\* a setRank to the bot's own rank, a rank of the directory, was refused
C20_Witness ==
    /\ roblox.request.fn = "setRank"
    /\ roblox.request.target = roblox.botRankInGroup
    /\ roblox.request.outcome = "PermissionError"
    /\ roblox.botRankInGroup = Some(2)
    /\ MapGet(roblox.rolesByRank, 2) # None
    /\ \E u \in Users : srvRank[u] = 1

\* C21: a setRank to the rank the user holds at the platform returns
\* changed = false, leaves every rank at the platform as it was, and on the
\* client neither creates nor replaces the undo slot.
C21_SameRankIsNoOp ==
    [][(/\ pc = "fetch"
        /\ op.name = "setRank"
        /\ op.rank = srvRank[op.user]
        /\ pc' = "idle"
        /\ ret'.kind = "return")
          => /\ ret'.value[1].success
             /\ ~ret'.value[1].changed
             /\ ret'.value[1].newRank = ret'.value[1].oldRank
             /\ srvRank' = srvRank
             /\ lastAction' = lastAction]_vars

\* a setRank to the rank already held has returned, and the slot still
\* holds the action of an earlier call for another rank
C21_Witness ==
    /\ pc = "idle"
    /\ op.name = "setRank"
    /\ ret.kind = "return"
    /\ ~ret.value[1].changed
    /\ srvRank[op.user] = op.rank
    /\ Len(lastAction) = 1
    /\ lastAction[1].newRank # op.rank

\* the tiers a request may move a user to: the roles the bot may assign,
\* inside the configured limits
PermittedRanks(rb) ==
    {x \in AssignableRanks(rb) : x >= rb.limits.minRank /\ x <= rb.limits.maxRank}

\* a promote that moved a user is followed by a demote of that user, or a
\* demote by a promote
RoundTrip ==
    /\ roblox.request.fn \in {"promote", "demote"}
    /\ roblox.request.outcome = "changed"
    /\ roblox'.request.fn \in {"promote", "demote"} \ {roblox.request.fn}
    /\ roblox'.request.user = roblox.request.user

TiersBelowBot ==
    { roblox.groupRoles[1][i].rank : i \in
        { i \in 1..Len(roblox.groupRoles[1]) :
            /\ roblox.groupRoles[1][i].rank > 0
            /\ roblox.groupRoles[1][i].rank < roblox.botRankInGroup[1] } }

\* a promote of a user at the highest tier the bot may assign, or a demote
\* of a user at the lowest one, is handled in this step
AtBoundaryTier ==
    /\ roblox'.request # roblox.request
    /\ roblox'.request.cur \in TiersBelowBot
    /\ \/ /\ roblox'.request.fn = "promote"
          /\ \A x \in TiersBelowBot : x <= roblox'.request.cur
       \/ /\ roblox'.request.fn = "demote"
          /\ \A x \in TiersBelowBot : x >= roblox'.request.cur

\* C23: promote of a user already at the highest assignable tier, the
\* largest role rank strictly below the bot's rank, and demote of a user at
\* the lowest assignable tier end with changed = false, not with an error,
\* and move nobody.
C23_BoundaryIsNoOp ==
    [][AtBoundaryTier
          => /\ roblox'.request.outcome = "unchanged"
             /\ roblox'.request.target = None
             /\ srvRank' = srvRank]_vars

\* a promote at the top tier of the example: a user at 100 under a bot at 150
C23_Witness ==
    /\ roblox.botRankInGroup = Some(150)
    /\ roblox.request.fn = "promote"
    /\ roblox.request.cur = 100
    /\ roblox.request.outcome = "unchanged"
    /\ srvRank[roblox.request.user] = 100

\* the indices of the items of a batch that succeeded for the user u
SucceededFor(res, u) ==
    {i \in 1..Len(res) : res[i].success /\ res[i].userId = Some(u)}

RequestHandled ==
    /\ roblox'.request.fn # "none"
    /\ \/ roblox'.request # roblox.request
       \/ srvRank' # srvRank
       \/ nAdds' # nAdds

ProbeMade == session'.probes = session.probes + 1

\* C26: a probe that finds the session unhealthy when the state before it was
\* healthy or degraded emits exactly one notification; every other probe,
\* a failing probe in the unhealthy state included, emits none; no probe
\* changes the credential; the status value is the state
C26_NotifiesOncePerTransition ==
    [][ProbeMade =>
          /\ session'.notifications - session.notifications =
                 (IF /\ session'.state = "unhealthy"
                     /\ session.state \in {"healthy", "degraded"}
                  THEN 1 ELSE 0)
          /\ session'.credential = session.credential
          /\ session'.status = session'.state]_vars

\* three probes: the first found the session unhealthy and was notified, the
\* next two found it unhealthy still
C26_Witness ==
    /\ session.state = "unhealthy"
    /\ session.before = "unhealthy"
    /\ session.probes = 3
    /\ session.notifications = 1

\* C28: with COMMAND_COOLDOWN set to 0 checkCooldown never reports a
\* remaining wait
C28_ZeroDisablesCooldown ==
    cooldowns.COMMAND_COOLDOWN = Some(<<"0">>) => cooldowns.remaining = None

\* the entries of the buffer an option set with these values selects
Matching(action, success, userId) ==
    SelectSeq(logs, LAMBDA log :
        /\ action # None => log.action = action[1]
        /\ success # None => log.success = success[1]
        /\ userId # None => log.userId = userId[1])

\* the half-open range [from, to) of a sequence, counted from 0
Range(arr, from, to) ==
    [i \in 1..(Min(to, Len(arr)) - Min(from, Len(arr))) |-> arr[Min(from, Len(arr)) + i]]

RECURSIVE SumCounts(_, _)
SumCounts(counts, keys) ==
    IF keys = {} THEN 0
    ELSE LET k == CHOOSE x \in keys : TRUE
         IN  counts[k] + SumCounts(counts, keys \ {k})

StatsAddUp(stats) ==
    /\ stats.total = Len(logs)
    /\ stats.total = stats.successful + stats.failed
    /\ stats.total = SumCounts(stats.byAction, DOMAIN stats.byAction)

\* C27 as stated: every option that is passed is a filter or a bound of the
\* page; limit and offset, when passed, are natural numbers
C27_QueryAsStated ==
    /\ lastCall.op = "getAll" =>
          LET o == lastCall.arg
              m == Matching(o.action, o.success, o.userId)
              offset == IF o.offset = None THEN 0 ELSE o.offset[1]
              limit == IF o.limit = None THEN DEFAULT_LIMIT ELSE o.limit[1]
          IN  (offset >= 0 /\ limit >= 0) =>
                  /\ lastCall.ret.logs = Range(m, offset, offset + limit)
                  /\ lastCall.ret.total = Len(m)
    /\ lastCall.op = "getStats" => StatsAddUp(lastCall.ret)

\* an option that is passed and is not '', or not 0
GivenText(option) == IF option = Some("") THEN None ELSE option

GivenNumber(option) == IF option = Some(0) THEN None ELSE option

\* C27 (amended): getAll returns the entries that satisfy every filter that
\* is given, where an action of '' and a userId of 0 are no filter, as the
\* slice [offset, offset+limit) of the newest-first filtered list, where a
\* limit that is absent or 0 is 50 and limit and offset are not negative;
\* total is the number of filtered entries; the result names the limit and
\* the offset it used; getStats counts the buffer: total = successful +
\* failed = the sum of the counts by action
C27_QueryOverGivenFilters ==
    /\ lastCall.op = "getAll" =>
          LET o == lastCall.arg
              m == Matching(GivenText(o.action), o.success, GivenNumber(o.userId))
              offset == IF o.offset = None THEN 0 ELSE o.offset[1]
              limit == IF GivenNumber(o.limit) = None THEN DEFAULT_LIMIT ELSE o.limit[1]
          IN  (offset >= 0 /\ limit >= 0) =>
                  /\ lastCall.ret.logs = Range(m, offset, offset + limit)
                  /\ lastCall.ret.total = Len(m)
                  /\ lastCall.ret.limit = limit
                  /\ lastCall.ret.offset = offset
    /\ lastCall.op = "getStats" => StatsAddUp(lastCall.ret)

\* a filter on all three fields that two of three entries pass, and a page of
\* one entry that begins at the second of them
C27_Witness ==
    /\ lastCall.op = "getAll"
    /\ Len(logs) = 3
    /\ lastCall.arg.action = Some("setRank")
    /\ lastCall.arg.success = Some(FALSE)
    /\ lastCall.arg.userId = Some(2)
    /\ lastCall.arg.limit = Some(1)
    /\ lastCall.arg.offset = Some(1)
    /\ lastCall.ret.total = 2
    /\ Len(lastCall.ret.logs) = 1
    /\ lastCall.ret.logs[1] = logs[3]

\* getStats over a buffer of both outcomes and both actions
C27_StatsWitness ==
    /\ lastCall.op = "getStats"
    /\ lastCall.ret.total = 3
    /\ lastCall.ret.failed = 2
    /\ DOMAIN lastCall.ret.byAction = {"setRank", "promote"}

\* the three structures as initialize() builds them of one answer
SnapshotOf(roles) ==
    [sorted |-> Some(sortByRank(roles)),
     byRank |-> MapOf(roles, RankKeys(roles)),
     byName |-> MapOf(roles, NameKeys(roles))]

\* the three structures a lookup finds
SnapshotSeen ==
    [sorted |-> roblox.sortedGroupRoles,
     byRank |-> roblox.rolesByRank,
     byName |-> roblox.rolesByName]

\* C29: wherever a lookup may run, before, during and after a refresh, the
\* sorted sequence, the map by rank and the map by name are those of
\* one answer of the platform, or all three are still empty
C29_SnapshotIsWhole ==
    \/ SnapshotSeen = [sorted |-> None, byRank |-> << >>, byName |-> << >>]
    \/ \E roles \in RefreshAnswers : SnapshotSeen = SnapshotOf(roles)

\* a lookup by name in the middle of the second refresh, which has replaced
\* a directory of two roles by one of a single other role
C29_Witness ==
    /\ roblox.nInit = 2
    /\ roblox.awaiting = "getRankInGroup"
    /\ roblox.botRankInGroup = Some(255)
    /\ Len(roblox.groupRoles[1]) = 1
    /\ roblox.call.fn = "getRoleByName"
    /\ roblox.found = Some([id |-> 1, name |-> <<"A">>, rank |-> 2])

\* the entries of a buffer that are younger than one hour at time t
YoungerThanMaxAge(buf, t) == SelectSeq(buf, LAMBDA log : Age(log, t) < MAX_AGE)

\* C30: however add calls, sweeps and the passing of time interleave, the
\* buffer holds at most maxEntries entries, their timestamps do not increase
\* from the front to the back, and a step removes an entry younger than one
\* hour only when it is an add that cuts the buffer to its capacity
C30_AddAndCleanupInterleave ==
    /\ [](/\ Len(logs) <= maxEntries
          /\ \A i, j \in 1..Len(logs) :
                i < j => DateParse(logs[i].timestamp) >= DateParse(logs[j].timestamp))
    /\ [][IF nAdds' # nAdds
          THEN Tail(logs') = SubSeq(logs, 1, Min(Len(logs), maxEntries - 1))
          ELSE YoungerThanMaxAge(logs', now) = YoungerThanMaxAge(logs, now)]_vars

\* three adds at three times with a sweep in between that removed the first
\* entry: the buffer is full with the two later entries
C30_Witness ==
    /\ nextSweep > StartTime + CLEANUP_INTERVAL
    /\ lastCall.op = "add"
    /\ nAdds = 3
    /\ maxEntries = 2
    /\ Len(logs) = 2
    /\ DateParse(logs[1].timestamp) = StartTime + MAX_AGE + 1
    /\ DateParse(logs[2].timestamp) = StartTime + MAX_AGE

\* the role directory: the answer, the three structures and the bot's rank
Directory ==
    <<roblox.groupRoles, roblox.sortedGroupRoles, roblox.rolesByRank,
      roblox.rolesByName, roblox.botRankInGroup>>

\* sorted holds the roles of fetched, each as often as fetched does
IsPermutation(sorted, fetched) ==
    /\ Len(sorted) = Len(fetched)
    /\ \A role \in {fetched[i] : i \in 1..Len(fetched)} :
          Cardinality({i \in 1..Len(sorted) : sorted[i] = role})
              = Cardinality({i \in 1..Len(fetched) : fetched[i] = role})

\* C31: a step that is not a step of initialize(), so a step of one of the
\* five getters, leaves the answer, the sorted sequence, both maps and the
\* bot's rank as they are; the sorted sequence holds the roles of the last
\* answer in ascending order of rank
C31_OnlyInitializeMutates ==
    /\ [][(roblox'.awaiting = roblox.awaiting /\ roblox'.nInit = roblox.nInit)
             => Directory' = Directory]_vars
    /\ [](roblox.sortedGroupRoles # None =>
             /\ IsPermutation(roblox.sortedGroupRoles[1], roblox.groupRoles[1])
             /\ \A i, j \in 1..Len(roblox.sortedGroupRoles[1]) :
                   i < j => roblox.sortedGroupRoles[1][i].rank
                               <= roblox.sortedGroupRoles[1][j].rank)

\* getSortedRoles() has returned the sorted sequence of an answer that came
\* in descending order, and the answer is still in its order
C31_Witness ==
    /\ roblox.call.fn = "getSortedRoles"
    /\ roblox.groupRoles # None
    /\ Len(roblox.groupRoles[1]) = 2
    /\ roblox.groupRoles[1][1].rank = 2
    /\ roblox.groupRoles[1][2].rank = 1
    /\ roblox.value = roblox.sortedGroupRoles
    /\ roblox.value[1][1].rank = 1

\* the lower bound of the delay before retry k: 1000, 2000, 4000, ...
BackoffFloor(k) == BASE_DELAY * Pow2(k - 1)

\* C32: while request() sleeps before retry k = attempt, the delay is at
\* most MAX_DELAY; it is MAX_DELAY when BASE_DELAY * 2^(k-1) has reached the
\* cap, and else BASE_DELAY * 2^(k-1) plus a jitter in [0, 1000)
C32_BackoffDoublesToCap ==
    pc = "sleep" =>
        /\ attempt >= 1
        /\ delay <= MAX_DELAY
        /\ BackoffFloor(attempt) >= MAX_DELAY => delay = MAX_DELAY
        /\ BackoffFloor(attempt) < MAX_DELAY =>
              /\ delay >= BackoffFloor(attempt)
              /\ delay < BackoffFloor(attempt) + 1000

\* the sleep before the fifth retry, whose 16000 ms are cut to the cap
C32_Witness ==
    /\ pc = "sleep"
    /\ attempt = 5
    /\ nSleep = 4
    /\ delay = MAX_DELAY

\* C33: of the requests one call of promote or demote sends, the service
\* handles at most one, whichever attempts time out, lose their response or
\* fail to connect
C33_OneRequestPerCall ==
    op.name \in {"promote", "demote"} => nProcessed <= 1

\* C34: when undo() finishes and the slot holds an action that is not the
\* one undo() found there, recorded by a call that completed in between,
\* the slot still holds that action afterwards
C34_UndoKeepsOtherAction ==
    [][(/\ op.name = "undo"
        /\ pc # "idle"
        /\ pc' = "idle"
        /\ lastAction # None
        /\ lastAction # op.action)
          => lastAction' = lastAction]_vars

\* C35: of requests whose addresses differ in the masked part only, all
\* entries hold the same ip value, and none holds an address as it came
C35_MaskHidesMaskedPart ==
    /\ \A i, j \in 1..Len(logs) : logs[i].ip = logs[j].ip
    /\ \A i \in 1..Len(logs) : logs[i].ip \notin ipPool

\* C36: the entry add stores holds targetRank, oldRank and newRank as they
\* were given, rank 0 included, and null where the caller gave none
C36_RanksStoredAsGiven ==
    lastCall.op = "add" =>
        /\ logs[1].targetRank = lastCall.arg.targetRank
        /\ logs[1].oldRank = lastCall.arg.oldRank
        /\ logs[1].newRank = lastCall.arg.newRank

\* a cached fetch has ended by throwing
CachedCallFailed ==
    /\ pc = "idle"
    /\ op.name \in CachedNames
    /\ ret.kind = "throw"

\* C37 as stated: a cached fetch that fails, forced or not, leaves the
\* store of the cache as the call found it, the entry of its key included
C37_FailedFetchLeavesCache == CachedCallFailed => cache = cacheAtCall

\* C37: a cached fetch that fails writes nothing to the cache.  A forced one
\* leaves the store as the call found it; an unforced one leaves the other
\* keys as the call found them and its own key without an entry, the lookup
\* having deleted the entry that had expired
C37_FailedFetchWritesNothing ==
    CachedCallFailed =>
        /\ \A k \in CacheKeys \ {KeyOf(op.name)} : cache[k] = cacheAtCall[k]
        /\ op.force => cache = cacheAtCall
        /\ ~op.force =>
            /\ cache[KeyOf(op.name)] = None
            /\ \/ cacheAtCall[KeyOf(op.name)] = None
               \/ cacheAtCall[KeyOf(op.name)][1].expiry < now

\* a forced fetch failed and the entry of its key, and one of another key,
\* are still stored
C37_Witness ==
    /\ CachedCallFailed
    /\ op.force
    /\ cache[KeyOf(op.name)] # None
    /\ \E k \in CacheKeys \ {KeyOf(op.name)} : cache[k] # None

\* an unforced fetch failed after its lookup deleted the expired entry
C37_ExpiredWitness ==
    /\ CachedCallFailed
    /\ ~op.force
    /\ cacheAtCall[KeyOf(op.name)] # None
    /\ cache[KeyOf(op.name)] = None

\* the cooldown in force, in seconds
CooldownInForce == commandCooldown(cooldowns.COMMAND_COOLDOWN)

\* the pair <<command, user>> was last accepted at time t: its cooldown
\* was set then and runs until t + c
AcceptedAt(map, pair, t) ==
    pair \in DOMAIN map /\ map[pair] = t + CooldownInForce * 1000

\* the time the cooldown of a pair in the map began to run
LastAccepted(map, pair) == map[pair] - CooldownInForce * 1000

\* C38: under a cooldown of c > 0 seconds an attempt of a pair accepted at
\* t is rejected before t + c with the whole seconds left, at least 1, and
\* leaves the cooldown as it was; an attempt at or after t + c, or of a
\* pair never accepted, is accepted; no attempt touches another pair
C38_CooldownPerPair ==
    [][(CooldownInForce > 0 /\ cooldowns'.checks = cooldowns.checks + 1) =>
        LET pair == cooldowns'.key
            before == cooldowns.map
            after == cooldowns'.map
            within == /\ pair \in DOMAIN before
                      /\ AcceptedAt(before, pair, LastAccepted(before, pair))
                      /\ now < LastAccepted(before, pair)
                                + CooldownInForce * 1000
        IN  /\ \A p \in DOMAIN before \ {pair} :
                p \in DOMAIN after /\ after[p] = before[p]
            /\ DOMAIN after \subseteq DOMAIN before \cup {pair}
            /\ within =>
                /\ cooldowns'.remaining # None
                /\ cooldowns'.remaining[1] >= 1
                /\ cooldowns'.remaining[1] * 1000 >= before[pair] - now
                /\ (cooldowns'.remaining[1] - 1) * 1000 < before[pair] - now
                /\ after = before
            /\ ~within =>
                /\ cooldowns'.remaining = None
                /\ AcceptedAt(after, pair, now)]_vars

\* an attempt was rejected with one second left while another pair is on
\* its own cooldown
C38_Witness ==
    /\ CooldownInForce > 0
    /\ cooldowns.remaining = Some(1)
    /\ Cardinality(DOMAIN cooldowns.map) = 2

\* the second attempt of a pair came exactly when its cooldown of one
\* second ended, and was accepted
C38_AtExpiryWitness ==
    /\ CooldownInForce = 1
    /\ cooldowns.checks = 2
    /\ cooldowns.remaining = None
    /\ Cardinality(DOMAIN cooldowns.map) = 1
    /\ now = StartTime + 1000
    /\ AcceptedAt(cooldowns.map, cooldowns.key, now)

\* the numbers of the queued requests rise from the head to the tail
QueueInOrder ==
    \A i \in 1..(Len(game.requestQueue) - 1) :
        game.requestQueue[i] < game.requestQueue[i + 1]

\* C39: the request queue never holds more than MAX_QUEUE_SIZE requests
\* and keeps them in the order they were queued; queueing into a full
\* queue drops its oldest request; the request sent next is always the
\* oldest one queued, later than every request sent before; and never is
\* more than one processQueue loop under way
C39_BoundedFifoQueue ==
    /\ [](/\ Len(game.requestQueue) <= MAX_QUEUE_SIZE
          /\ QueueInOrder
          /\ game.loops <= 1
          /\ game.isProcessingQueue <=> game.loops = 1)
    /\ [][/\ game'.queued = game.queued + 1 =>
               game'.requestQueue =
                   Append(IF Len(game.requestQueue) = MAX_QUEUE_SIZE
                          THEN Tail(game.requestQueue)
                          ELSE game.requestQueue,
                          game'.queued)
          /\ game'.lastSent # game.lastSent =>
               /\ game'.lastSent = Head(game.requestQueue)
               /\ game'.lastSent > game.lastSent
               /\ game'.requestQueue = Tail(game.requestQueue)
               /\ game'.request = Some(game'.lastSent)]_vars

\* the queue is full after its oldest requests were dropped, and the
\* processor is sending a request
C39_Witness ==
    /\ Len(game.requestQueue) = MAX_QUEUE_SIZE
    /\ game.queued > MAX_QUEUE_SIZE + 1
    /\ game.request # None
    /\ Head(game.requestQueue) > game.lastSent + 1

====
